---- MODULE Spec2Model ----
(***************************************************************************)
(* Surv-IR resolution and validation engine: symbol table construction,    *)
(* reference resolution, the unit checker, the project checker and the     *)
(* deploy checker, as state machines over bounded inputs.                  *)
(*                                                                         *)
(* Conventions.  A Rust String that the code splits on '.' or strips a     *)
(* "kind." prefix from is a sequence of its '.'-separated segments         *)
(* ("schema.user" is <<"schema", "user">>, "" is <<>>).  Option<T> is a    *)
(* sequence of length at most one (None is <<>>).  A Diagnostic is a       *)
(* record whose message and location are the tuples of the arguments       *)
(* handed to format!.                                                      *)
(***************************************************************************)
EXTENDS Integers, Sequences, FiniteSets, TLC

VARIABLES
    pc,          \* position of the analysis run
    files,       \* &[(PathBuf, SurvFile)] handed to the symbol table builder
    symbols,     \* SymbolTable.entries
    assignments, \* HashMap<PathBuf, String>: the package each unit was assigned
    symDiags,    \* diagnostics of build_symbol_table_with_packages
    call,        \* the arguments of the resolve_reference call that ran
    resDiags,    \* the diags vector resolve_reference appends to
    unit,        \* the SurvFile handed to check_surv_file
    unitDiags,   \* diagnostics of check_surv_file
    project,     \* the ProjectAST handed to check_project
    keyOrder,    \* the order in which HashMap::keys() yielded the graph nodes
    projDiags,   \* diagnostics of check_project
    deploy,      \* the DeployFile handed to check_deploy_file
    deployDiags, \* diagnostics of check_deploy_file
    manifest,    \* Manifest.packages: package name -> PackageSection
    projectRoot, \* the project_root handed to assign_packages_to_files
    pkgAssignments, \* Vec<PackageAssignment> of assign_packages_to_files
    pkgDiags,    \* diagnostics of assign_packages_to_files
    contexts,    \* Vec<FileImportContext> of parse_imports_with_alias
    importDiags  \* diagnostics of parse_imports_with_alias

loadVars == <<manifest, projectRoot, pkgAssignments, pkgDiags, contexts, importDiags>>

vars == <<pc, files, assignments, symbols, symDiags, call, resDiags, unit, unitDiags,
          project, keyOrder, projDiags, deploy, deployDiags, loadVars>>

----------------------------------------------------------------------------
(* Generic helpers *)

None == <<>>

Some(x) == <<x>>

SeqsUpTo(S, n) == UNION {[1..k -> S] : k \in 0..n}

Range(s) == {s[i] : i \in 1..Len(s)}

RECURSIVE Flatten(_)
Flatten(ss) == IF ss = <<>> THEN <<>> ELSE Head(ss) \o Flatten(Tail(ss))

Contains(s, x) == \E i \in 1..Len(s) : s[i] = x

\* Diagnostic { severity, kind, message, location }   (diagnostic.rs)
Diagnostic(severity, kind, message, location) ==
    [severity |-> severity, kind |-> kind, message |-> message, location |-> location]

OfKind(diags, k) == SelectSeq(diags, LAMBDA d : d.kind = k)

CountKind(diags, k) == Len(OfKind(diags, k))

Kinds(diags) == {diags[i].kind : i \in 1..Len(diags)}

----------------------------------------------------------------------------
(* symbol.rs: symbol table construction *)

\* build_fq_name: "pkg.{package}.{prefix}.{ns_segment}.{local_name}"
build_fq_name(kind, package, namespace, local_name) ==
    LET prefix == CASE kind = "Schema" -> "schema"
                    [] kind = "Func" -> "func"
                    [] kind = "Mod" -> "mod"
        ns_segment == IF namespace = None THEN "global" ELSE namespace[1]
    IN  <<"pkg", package, prefix, ns_segment, local_name>>

make_entry(kind, package, namespace, local_name, path) ==
    [kind |-> kind,
     package |-> package,
     fq_name |-> build_fq_name(kind, package, namespace, local_name),
     local_name |-> local_name,
     namespace |-> namespace,
     file |-> path]

EntryKey(entry) == <<entry.kind, entry.package, entry.namespace, entry.local_name>>

\* report_duplicates: st carries the `defined` map and the diags vector.
report_duplicates(st, entry, current_path) ==
    LET key == EntryKey(entry)
    IN  IF key \in DOMAIN st.defined
        THEN [st EXCEPT !.diags = Append(st.diags,
                 Diagnostic("warning", "W_AMBIGUOUS_NAME",
                            <<entry.fq_name, st.defined[key], current_path>>,
                            <<current_path>>))]
        ELSE [st EXCEPT !.defined = (key :> current_path) @@ st.defined]

\* The package a unit's symbols are filed under (symbol.rs:59-63).
UnitPackage(file, path, assigned) ==
    IF path \in DOMAIN assigned THEN assigned[path]
    ELSE IF file.package # None THEN file.package[1]
    ELSE "default"

\* Faulty variant: a declaration whose key is already defined is reported and dropped.
BuildSection_DropDuplicate(st, section, package, namespace, path) ==
    IF section.tag \in {"Schema", "Func", "Mod"}
    THEN LET entry == make_entry(section.tag, package, namespace, section.name, path)
             st1 == report_duplicates(st, entry, path)
         IN  IF EntryKey(entry) \in DOMAIN st.defined THEN st1
             ELSE [st1 EXCEPT !.entries = Append(st1.entries, entry)]
    ELSE st

\* One iteration of `for section in &file.sections`.
BuildSection(st, section, package, namespace, path) ==
    IF section.tag \in {"Schema", "Func", "Mod"}
    THEN LET entry == make_entry(section.tag, package, namespace, section.name, path)
             st1 == report_duplicates(st, entry, path)
         IN  [st1 EXCEPT !.entries = Append(st1.entries, entry)]
    ELSE st   \* Section::Meta, Section::Status

RECURSIVE BuildSections(_, _, _, _, _)
BuildSections(st, sections, package, namespace, path) ==
    IF sections = <<>> THEN st
    ELSE BuildSections(BuildSection(st, Head(sections), package, namespace, path),
                       Tail(sections), package, namespace, path)

RECURSIVE BuildFiles(_, _, _)
BuildFiles(st, fs, assigned) ==
    IF fs = <<>> THEN st
    ELSE LET path == Head(fs).path
             file == Head(fs).file
             package == UnitPackage(file, path, assigned)
         IN  BuildFiles(BuildSections(st, file.sections, package, file.namespace, path),
                        Tail(fs), assigned)

\* build_symbol_table_with_packages(files, assignments) -> (SymbolTable, Vec<Diagnostic>)
build_symbol_table_with_packages(fs, assigned) ==
    BuildFiles([entries |-> <<>>, diags |-> <<>>, defined |-> <<>>], fs, assigned)

----------------------------------------------------------------------------
(* symbol.rs: reference resolution *)

\* extract_local_name: the text after the first '.', or the whole text.
extract_local_name(reference) ==
    IF Len(reference) >= 2 THEN Tail(reference) ELSE reference

\* split_reference: (Some(head), tail) at the first '.', else (None, reference).
split_reference(reference) ==
    IF Len(reference) >= 2
    THEN [prefix |-> Some(Head(reference)), base |-> Tail(reference)]
    ELSE [prefix |-> None, base |-> reference]

emit_undefined(kind, reference, path, context, diags) ==
    LET code == CASE kind = "Schema" -> "E_UNDEFINED_SCHEMA"
                  [] kind = "Func" -> "E_UNDEFINED_FUNC"
                  [] kind = "Mod" -> "E_UNDEFINED_MOD"
    IN  Append(diags, Diagnostic("error", code, <<reference>>, <<path, context>>))

emit_ambiguous(kind, reference, matches, path, context, diags) ==
    LET candidates == [i \in 1..Len(matches) |-> matches[i].fq_name]
        kind_str == CASE kind = "Schema" -> "schema"
                      [] kind = "Func" -> "func"
                      [] kind = "Mod" -> "mod"
    IN  Append(diags, Diagnostic("warning", "W_AMBIGUOUS_NAME",
                                 <<kind_str, reference, candidates>>, <<path, context>>))

\* entry.local_name == local_name, the latter being a slice of the reference.
SameName(entry, local_name) == local_name = <<entry.local_name>>

\* Faulty variant: with a namespace given, only its entries are returned.
lookup_in_package_NoFallback(syms, kind, package, namespace, local_name) ==
    SelectSeq(syms, LAMBDA entry :
        /\ entry.kind = kind /\ entry.package = package
        /\ SameName(entry, local_name)
        /\ namespace # None => entry.namespace = namespace)

lookup_in_package(syms, kind, package, namespace, local_name) ==
    LET matches == SelectSeq(syms, LAMBDA entry :
                       entry.kind = kind /\ entry.package = package
                       /\ SameName(entry, local_name))
        exact == SelectSeq(matches, LAMBDA entry : entry.namespace = namespace)
    IN  IF namespace # None /\ exact # <<>> THEN exact ELSE matches

lookup_any_namespace(syms, kind, local_name) ==
    SelectSeq(syms, LAMBDA entry : entry.kind = kind /\ SameName(entry, local_name))

\* The first import whose alias or package name equals the prefix.
RECURSIVE PrefixImport(_, _)
PrefixImport(prefix, imports) ==
    IF imports = <<>> THEN None
    ELSE IF Head(imports).alias = Some(prefix) \/ prefix = Head(imports).package
         THEN Some(Head(imports).package)
         ELSE PrefixImport(prefix, Tail(imports))

\* Faulty variant: the unit's own namespace is not a prefix.
resolve_prefix_NoNamespace(prefix, ctx) ==
    IF prefix = ctx.self_package THEN Some(prefix)
    ELSE PrefixImport(prefix, ctx.imports)

resolve_prefix(prefix, ctx) ==
    IF prefix = ctx.self_package THEN Some(prefix)
    ELSE IF ctx.namespace = Some(prefix) THEN Some(ctx.self_package)
    ELSE PrefixImport(prefix, ctx.imports)

\* The resolve_* helpers return [done, diags]: the bool result and the
\* diags vector after the call.
resolve_self_package(syms, kind, ctx, local_name, reference, path, context, diags) ==
    LET matches == lookup_in_package(syms, kind, ctx.self_package, ctx.namespace, local_name)
    IN  IF Len(matches) = 0 THEN [done |-> FALSE, diags |-> diags]
        ELSE IF Len(matches) = 1 THEN [done |-> TRUE, diags |-> diags]
        ELSE [done |-> TRUE,
              diags |-> emit_ambiguous(kind, reference, matches, path, context, diags)]

\* The loop of resolve_import_packages over ctx.imports, `matches` accumulated.
RECURSIVE ImportLoop(_, _, _, _, _, _, _, _, _)
ImportLoop(syms, kind, imports, matches, local_name, reference, path, context, diags) ==
    IF imports = <<>>
    THEN IF Len(matches) = 0 THEN [done |-> FALSE, diags |-> diags]
         ELSE IF Len(matches) = 1 THEN [done |-> TRUE, diags |-> diags]
         ELSE [done |-> TRUE,
               diags |-> emit_ambiguous(kind, reference, matches, path, context, diags)]
    ELSE LET found == lookup_in_package(syms, kind, Head(imports).package, None, local_name)
         IN  IF Len(found) = 1
             THEN ImportLoop(syms, kind, Tail(imports), Append(matches, found[1]),
                             local_name, reference, path, context, diags)
             ELSE IF Len(found) > 1
             THEN [done |-> TRUE,
                   diags |-> emit_ambiguous(kind, reference, found, path, context, diags)]
             ELSE ImportLoop(syms, kind, Tail(imports), matches,
                             local_name, reference, path, context, diags)

\* Faulty variant: the first import that holds the name decides alone.
resolve_import_packages_FirstMatch(syms, kind, ctx, local_name, reference, path, context, diags) ==
    LET found(i) == lookup_in_package(syms, kind, ctx.imports[i].package, None, local_name)
        hits == {i \in 1..Len(ctx.imports) : found(i) # <<>>}
        first == CHOOSE i \in hits : \A j \in hits : i <= j
    IN  IF hits = {} THEN [done |-> FALSE, diags |-> diags]
        ELSE IF Len(found(first)) = 1 THEN [done |-> TRUE, diags |-> diags]
        ELSE [done |-> TRUE,
              diags |-> emit_ambiguous(kind, reference, found(first), path, context, diags)]

resolve_import_packages(syms, kind, ctx, local_name, reference, path, context, diags) ==
    ImportLoop(syms, kind, ctx.imports, <<>>, local_name, reference, path, context, diags)

\* Faulty variant: several entries in the package resolve to the first, silently.
resolve_package_reference_FirstWins(syms, kind, package, local_name, reference, path, context, diags) ==
    IF lookup_in_package(syms, kind, package, None, local_name) = <<>>
    THEN emit_undefined(kind, reference, path, context, diags)
    ELSE diags

resolve_package_reference(syms, kind, package, local_name, reference, path, context, diags) ==
    LET matches == lookup_in_package(syms, kind, package, None, local_name)
    IN  IF Len(matches) = 0 THEN emit_undefined(kind, reference, path, context, diags)
        ELSE IF Len(matches) = 1 THEN diags
        ELSE emit_ambiguous(kind, reference, matches, path, context, diags)

\* Faulty variant: no global fallback, a name outside the self package and the
\* imports is undefined.
resolve_global_reference_None(syms, kind, local_name, reference, path, context, diags) ==
    emit_undefined(kind, reference, path, context, diags)

resolve_global_reference(syms, kind, local_name, reference, path, context, diags) ==
    LET matches == lookup_any_namespace(syms, kind, local_name)
    IN  IF Len(matches) = 0 THEN emit_undefined(kind, reference, path, context, diags)
        ELSE IF Len(matches) = 1 THEN diags
        ELSE emit_ambiguous(kind, reference, matches, path, context, diags)

\* Faulty variant: the imported packages are consulted before the self package.
ResolveUnprefixed_ImportsFirst(syms, kind, ctx, local, reference, path, context, diags) ==
    LET imp == resolve_import_packages(syms, kind, ctx, local, reference, path, context,
                                       diags)
        self == resolve_self_package(syms, kind, ctx, local, reference, path, context,
                                     imp.diags)
    IN  IF imp.done THEN imp.diags
        ELSE IF self.done THEN self.diags
        ELSE resolve_global_reference(syms, kind, local, reference, path, context, self.diags)

\* Faulty variant: an ambiguous self-package match is reported and then treated as
\* unresolved, so the later rules run as well.
ResolveUnprefixed_Cascade(syms, kind, ctx, local, reference, path, context, diags) ==
    LET self == resolve_self_package(syms, kind, ctx, local, reference, path, context, diags)
        imp == resolve_import_packages(syms, kind, ctx, local, reference, path, context,
                                       self.diags)
    IN  IF self.done /\ self.diags = diags THEN self.diags
        ELSE IF imp.done THEN imp.diags
        ELSE resolve_global_reference(syms, kind, local, reference, path, context, imp.diags)

\* The `_ =>` arm of resolve_reference: self package, then imports, then global.
ResolveUnprefixed(syms, kind, ctx, local, reference, path, context, diags) ==
    LET self == resolve_self_package(syms, kind, ctx, local, reference, path, context, diags)
        imp == resolve_import_packages(syms, kind, ctx, local, reference, path, context,
                                       self.diags)
    IN  IF self.done THEN self.diags
        ELSE IF imp.done THEN imp.diags
        ELSE resolve_global_reference(syms, kind, local, reference, path, context, imp.diags)

\* resolve_reference(symbols, kind, reference, path, ctx, context, diags);
\* the value is the diags vector after the call.
resolve_reference(syms, kind, reference, path, ctx, context, diags) ==
    IF reference = <<>> THEN diags
    ELSE LET sp == split_reference(reference)
         IN  IF sp.prefix # None /\ sp.prefix[1] # "schema" /\ sp.prefix[1] # "func"
             THEN LET package == resolve_prefix(sp.prefix[1], ctx)
                  IN  IF package = None
                      THEN Append(diags, Diagnostic("error", "E_UNDEFINED_PREFIX",
                                                    <<sp.prefix[1]>>, <<path, context>>))
                      ELSE resolve_package_reference(syms, kind, package[1],
                               extract_local_name(sp.base), reference, path, context, diags)
             ELSE LET local == IF sp.prefix # None THEN extract_local_name(sp.base)
                               ELSE extract_local_name(reference)
                  IN  ResolveUnprefixed(syms, kind, ctx, local, reference, path, context, diags)

----------------------------------------------------------------------------
(* checker.rs: the unit checker *)

\* The concatenation of F(x) over the elements x of s, in order.
ForEach(s, F(_)) == Flatten([i \in 1..Len(s) |-> F(s[i])])

\* BTreeMap iteration order of the section names of the model.
NameOrder == <<"a", "b", "c", "e", "f", "g", "h", "m", "m2">>

Rank(name) == CHOOSE i \in 1..Len(NameOrder) : NameOrder[i] = name

schema_id(schema) == <<"schema", schema.name>>

func_id(func) == <<"func", func.name>>

mod_id(module) == <<"mod", module.name>>

\* One BTreeMap of FileIndex::new: the sections of one tag keyed by name, a
\* later section replacing an earlier one of the same name, iterated in key
\* order.  The value is the sequence of the map's values.
IndexOf(file, tag) ==
    LET secs == SelectSeq(file.sections, LAMBDA sec : sec.tag = tag)
        names == {secs[i].name : i \in 1..Len(secs)}
        last(name) == secs[CHOOSE i \in 1..Len(secs) :
                             /\ secs[i].name = name
                             /\ \A j \in (i+1)..Len(secs) : secs[j].name # name]
        sorted == CHOOSE q \in [1..Cardinality(names) -> names] :
                      \A i, j \in 1..Cardinality(names) : i < j => Rank(q[i]) < Rank(q[j])
    IN  [i \in 1..Cardinality(names) |-> last(sorted[i])]

FileIndex(file) ==
    [schemas |-> IndexOf(file, "Schema"),
     funcs |-> IndexOf(file, "Func"),
     mods |-> IndexOf(file, "Mod")]

\* index.schemas.contains_key(key), index.funcs.contains_key(key)
HasSchema(index, key) == \E i \in 1..Len(index.schemas) : schema_id(index.schemas[i]) = key

HasFunc(index, key) == \E i \in 1..Len(index.funcs) : func_id(index.funcs[i]) = key

\* index.funcs.get(key), defined when HasFunc
GetFunc(index, key) ==
    index.funcs[CHOOSE i \in 1..Len(index.funcs) : func_id(index.funcs[i]) = key]

check_func_schemas(index) ==
    ForEach(index.funcs, LAMBDA func :
        ForEach(func.input, LAMBDA schema :
            IF ~HasSchema(index, schema)
            THEN <<Diagnostic("error", "UndefinedSchema",
                              <<func_id(func), "input", schema>>,
                              <<func_id(func), "input", schema>>)>>
            ELSE <<>>)
        \o
        ForEach(func.output, LAMBDA schema :
            IF ~HasSchema(index, schema)
            THEN <<Diagnostic("error", "UndefinedSchema",
                              <<func_id(func), "output", schema>>,
                              <<func_id(func), "output", schema>>)>>
            ELSE <<>>))

check_mod_references(index) ==
    ForEach(index.mods, LAMBDA module :
        ForEach(module.schemas, LAMBDA schema :
            IF ~HasSchema(index, schema)
            THEN <<Diagnostic("error", "UndefinedSchemaInMod",
                              <<mod_id(module), schema>>,
                              <<mod_id(module), "schemas", schema>>)>>
            ELSE <<>>)
        \o
        ForEach(module.funcs, LAMBDA func :
            IF ~HasFunc(index, func)
            THEN <<Diagnostic("error", "UndefinedFuncInMod",
                              <<mod_id(module), func>>,
                              <<mod_id(module), "funcs", func>>)>>
            ELSE <<>>)
        \o
        ForEach(module.pipeline, LAMBDA step :
            IF ~HasFunc(index, step)
            THEN <<Diagnostic("error", "UndefinedFuncInPipeline",
                              <<mod_id(module), step>>,
                              <<mod_id(module), "pipeline", step>>)>>
            ELSE <<>>))

check_schema_links(index) ==
    ForEach(index.schemas, LAMBDA schema :
        IF schema.kind = "edge"
        THEN (IF schema.from # <<>> /\ ~HasSchema(index, schema.from)
              THEN <<Diagnostic("error", "UndefinedSchemaInEdgeFrom",
                                <<schema_id(schema), schema.from>>,
                                <<schema_id(schema), "from", schema.from>>)>>
              ELSE <<>>)
             \o
             (IF schema.to # <<>> /\ ~HasSchema(index, schema.to)
              THEN <<Diagnostic("error", "UndefinedSchemaInEdgeTo",
                                <<schema_id(schema), schema.to>>,
                                <<schema_id(schema), "to", schema.to>>)>>
              ELSE <<>>)
        ELSE IF schema.kind = "boundary"
        THEN ForEach(schema.over, LAMBDA over :
                 IF ~HasSchema(index, over)
                 THEN <<Diagnostic("error", "UndefinedSchemaInBoundary",
                                   <<schema_id(schema), over>>,
                                   <<schema_id(schema), "over", over>>)>>
                 ELSE <<>>)
        ELSE <<>>)

\* Faulty variant: an empty output list is taken to fit any input.
has_common_schema_EmptyFits(a, b) ==
    IF a = <<>> THEN TRUE
    ELSE \E j \in 1..Len(b) : b[j] \in Range(a)

\* has_common_schema(a, b)
has_common_schema(a, b) ==
    IF a = <<>> \/ b = <<>> THEN FALSE
    ELSE \E j \in 1..Len(b) : b[j] \in Range(a)

\* Faulty variant: a step is compared with the step before it only.
PipelineCycles_Adjacent(module) ==
    ForEach([i \in 1..Len(module.pipeline) |-> i], LAMBDA i :
        IF i > 1 /\ module.pipeline[i] = module.pipeline[i - 1]
        THEN <<Diagnostic("error", "PipelineCycle",
                          <<mod_id(module), module.pipeline[i]>>,
                          <<mod_id(module), "pipeline">>)>>
        ELSE <<>>)

\* The `seen` loop of check_pipeline_semantics over one pipeline:
\* seen.insert(step) fails when the step was inserted before.
PipelineCycles(module) ==
    ForEach([i \in 1..Len(module.pipeline) |-> i], LAMBDA i :
        IF module.pipeline[i] \in {module.pipeline[j] : j \in 1..(i-1)}
        THEN <<Diagnostic("error", "PipelineCycle",
                          <<mod_id(module), module.pipeline[i]>>,
                          <<mod_id(module), "pipeline">>)>>
        ELSE <<>>)

\* The windows(2) loop of check_pipeline_semantics over one pipeline.
PipelineFlow(index, module) ==
    ForEach([i \in 1..(Len(module.pipeline) - 1) |-> i], LAMBDA i :
        LET f1 == module.pipeline[i]
            f2 == module.pipeline[i + 1]
        IN  IF ~HasFunc(index, f1) THEN <<>>
            ELSE IF ~HasFunc(index, f2) THEN <<>>
            ELSE IF ~has_common_schema(GetFunc(index, f1).output, GetFunc(index, f2).input)
            THEN <<Diagnostic("warning", "PipelineTypeMismatch",
                              <<mod_id(module), f1, f2>>,
                              <<mod_id(module), "pipeline", f1, f2>>)>>
            ELSE <<>>)

check_pipeline_semantics(index) ==
    ForEach(index.mods, LAMBDA module :
        IF module.pipeline = <<>> THEN <<>>
        ELSE PipelineCycles(module) \o PipelineFlow(index, module))

\* Faulty variant: the from/to/over of the schemas are not collected.
UsedSchemas_NoLinks(index) ==
    UNION {Range(index.funcs[i].input) \cup Range(index.funcs[i].output) :
              i \in 1..Len(index.funcs)}
    \cup UNION {Range(index.mods[i].schemas) : i \in 1..Len(index.mods)}

\* The used_schemas set of check_unused_definitions.
UsedSchemas(index) ==
    UNION {Range(index.funcs[i].input) \cup Range(index.funcs[i].output) :
              i \in 1..Len(index.funcs)}
    \cup UNION {Range(index.mods[i].schemas) : i \in 1..Len(index.mods)}
    \cup UNION {(IF index.schemas[i].from # <<>> THEN {index.schemas[i].from} ELSE {})
                \cup (IF index.schemas[i].to # <<>> THEN {index.schemas[i].to} ELSE {})
                \cup Range(index.schemas[i].over) : i \in 1..Len(index.schemas)}

\* Faulty variant: the pipeline steps are not collected.
UsedFuncs_NoPipeline(index) ==
    UNION {Range(index.mods[i].funcs) : i \in 1..Len(index.mods)}

\* The used_funcs set of check_unused_definitions.
UsedFuncs(index) ==
    UNION {Range(index.mods[i].funcs) \cup Range(index.mods[i].pipeline) :
              i \in 1..Len(index.mods)}

check_unused_definitions(index) ==
    ForEach(index.schemas, LAMBDA schema :
        IF schema_id(schema) \notin UsedSchemas(index)
        THEN <<Diagnostic("warning", "UnusedSchema",
                          <<schema_id(schema)>>, <<schema_id(schema)>>)>>
        ELSE <<>>)
    \o
    ForEach(index.funcs, LAMBDA func :
        IF func_id(func) \notin UsedFuncs(index)
        THEN <<Diagnostic("warning", "UnusedFunc",
                          <<func_id(func)>>, <<func_id(func)>>)>>
        ELSE <<>>)

check_surv_file(file) ==
    LET index == FileIndex(file)
    IN  check_func_schemas(index)
        \o check_mod_references(index)
        \o check_schema_links(index)
        \o check_pipeline_semantics(index)
        \o check_unused_definitions(index)

----------------------------------------------------------------------------
(* Bounded inputs of the symbol table builder and of the resolver *)

MaxUnits == 3      \* units handed to the symbol table builder
MaxEntries == 3    \* units (one declaration each) behind the resolver's table
MaxImports == 2    \* import directives of the unit under resolution

Section(tag, name) == [tag |-> tag, name |-> name]

\* Section lists as parse_sections emits them: meta, schemas, funcs, mods.
SectionLists ==
    { <<Section("Schema", "a")>>,
      <<Section("Meta", "meta"), Section("Schema", "a"), Section("Func", "a"),
        Section("Mod", "a")>> }

SurvFile(package, namespace, sections) ==
    [package |-> package, namespace |-> namespace, sections |-> sections]

NamespaceOpts == {None, Some("n")}

\* Units for the builder: the declared package is absent or "q"; a unit may
\* or may not have an entry in the assignment map (then under "p").
BuilderUnits ==
    { [file |-> SurvFile(pkg, ns, secs), assigned |-> a] :
        pkg \in {None, Some("q")}, ns \in NamespaceOpts, secs \in SectionLists,
        a \in {None, Some("p")} }

\* Units behind the resolver's table: one declaration each, all assigned.
\* Schema a in any package and namespace, and in p under a namespace no
\* context has; func a in p or q, no namespace.
ResolverUnits ==
    { [file |-> SurvFile(None, ns, <<Section("Schema", "a")>>), assigned |-> Some(pkg)] :
        ns \in NamespaceOpts, pkg \in {"p", "q", "r"} }
    \cup
    { [file |-> SurvFile(None, Some("m"), <<Section("Schema", "a")>>),
       assigned |-> Some("p")] }
    \cup
    { [file |-> SurvFile(None, None, <<Section("Func", "a")>>), assigned |-> Some(pkg)] :
        pkg \in {"p", "q"} }

\* The unit at position i has path i.
FilesOf(us) == [i \in 1..Len(us) |-> [path |-> i, file |-> us[i].file]]

AssignmentsOf(us) ==
    [i \in {j \in 1..Len(us) : us[j].assigned # None} |-> us[i].assigned[1]]

ImportEntry(package, alias) == [package |-> package, alias |-> alias]

ImportPool == {ImportEntry("q", None), ImportEntry("r", Some("x"))}

\* FileImportContext of the unit under resolution.
Contexts ==
    { [file_path |-> 1, self_package |-> sp, namespace |-> ns, imports |-> imps] :
        sp \in {"p", "q"}, ns \in NamespaceOpts, imps \in SeqsUpTo(ImportPool, MaxImports) }

\* The call sites of resolve_reference in resolve_names_with_packages fix
\* the expected kind: func input/output, edge from/to, boundary over and
\* mod schemas expect a schema; mod funcs and pipeline expect a func.
Sites == { [context |-> "func.input", kind |-> "Schema"],
           [context |-> "mod.funcs", kind |-> "Func"] }

References ==
    { <<>>, <<"a">>, <<"schema", "a">>, <<"schema", "b">>,
      <<"q", "schema", "a">>, <<"x", "a">>, <<"n", "a">>, <<"zz", "a">> }

Idle == <<>>

\* Package assignment and import resolution have not run.
LoadIdle ==
    /\ manifest = Idle /\ projectRoot = Idle
    /\ pkgAssignments = Idle /\ pkgDiags = Idle
    /\ contexts = Idle /\ importDiags = Idle

----------------------------------------------------------------------------
(* Symbol table and resolver: the state machine *)

InitCommon ==
    /\ symbols = Idle /\ symDiags = Idle /\ call = Idle /\ resDiags = <<>>
    /\ unit = Idle /\ unitDiags = Idle
    /\ project = Idle /\ keyOrder = Idle /\ projDiags = Idle
    /\ deploy = Idle /\ deployDiags = Idle
    /\ LoadIdle

InitSymbols ==
    /\ pc = "parsed"
    /\ \E us \in SeqsUpTo(BuilderUnits, MaxUnits) :
          files = FilesOf(us) /\ assignments = AssignmentsOf(us)
    /\ InitCommon

InitResolve ==
    /\ pc = "parsed"
    /\ \E us \in SeqsUpTo(ResolverUnits, MaxEntries) :
          files = FilesOf(us) /\ assignments = AssignmentsOf(us)
    /\ InitCommon

BuildSymbolTable ==
    /\ pc = "parsed"
    /\ LET r == build_symbol_table_with_packages(files, assignments)
       IN  symbols' = r.entries /\ symDiags' = r.diags
    /\ pc' = "built"
    /\ UNCHANGED <<files, assignments, call, resDiags, unit, unitDiags,
                   project, keyOrder, projDiags, deploy, deployDiags, loadVars>>

\* One call of resolve_reference from resolve_names_with_packages.
ResolveReference ==
    /\ pc = "built"
    /\ \E ctx \in Contexts, site \in Sites, reference \in References :
          /\ call' = [ctx |-> ctx, kind |-> site.kind, reference |-> reference,
                      context |-> site.context, before |-> Len(resDiags)]
          /\ resDiags' = resolve_reference(symbols, site.kind, reference, ctx.file_path,
                                           ctx, site.context, resDiags)
    /\ pc' = "resolved"
    /\ UNCHANGED <<files, assignments, symbols, symDiags, unit, unitDiags,
                   project, keyOrder, projDiags, deploy, deployDiags, loadVars>>

SpecSymbols == InitSymbols /\ [][BuildSymbolTable]_vars

NextResolve == BuildSymbolTable \/ ResolveReference

SpecResolve == InitResolve /\ [][NextResolve]_vars

----------------------------------------------------------------------------
(* The unit checker: bounded inputs and the state machine *)

MaxPipeline == 3   \* steps of the pipeline under test

SchemaSection(name, kind, from, to, over) ==
    [tag |-> "Schema", name |-> name, kind |-> kind, from |-> from, to |-> to, over |-> over]

FuncSection(name, input, output) ==
    [tag |-> "Func", name |-> name, input |-> input, output |-> output]

ModSection(name, schemas, funcs, pipeline) ==
    [tag |-> "Mod", name |-> name, schemas |-> schemas, funcs |-> funcs,
     pipeline |-> pipeline]

sa == <<"schema", "a">>
sb == <<"schema", "b">>

\* Units that vary the pipeline and the funcs it runs through.  Schemas a
\* and b are plain nodes; funcs f and g have any input and output among
\* FlowLists; module m lists both schemas and has a pipeline over f, g and
\* the undeclared h; module m2, when present, has a short pipeline of its own.
FlowLists == {<<>>, <<sa>>, <<sb>>, <<sb, sa>>}

PipelineUnits ==
    { SurvFile(None, None,
        <<SchemaSection("a", "node", <<>>, <<>>, <<>>),
          SchemaSection("b", "node", <<>>, <<>>, <<>>),
          FuncSection("f", fi, fo),
          FuncSection("g", gi, go),
          ModSection("m", <<sa, sb>>, <<>>, pl)>> \o m2) :
        fi \in FlowLists, fo \in FlowLists, gi \in FlowLists, go \in FlowLists,
        pl \in SeqsUpTo({<<"func", "f">>, <<"func", "g">>, <<"func", "h">>}, MaxPipeline),
        m2 \in {<<>>, <<ModSection("m2", <<>>, <<>>, <<<<"func", "g">>, <<"func", "g">>>>)>>} }

\* Units that vary the schemas and who refers to them.  Each of schemas a
\* and b is absent or has any kind and any from/to/over below; func f and
\* module m are absent or refer to some of the schemas.
SchemaChoices(name) ==
    {<<>>} \cup
    { <<SchemaSection(name, kind, from, to, over)>> :
        kind \in {"node", "edge", "boundary"},
        from \in {<<>>, sa, sb}, to \in {<<>>, sb}, over \in {<<>>, <<sa>>} }

SchemaUnits ==
    { SurvFile(None, None, a \o b \o f \o m) :
        a \in SchemaChoices("a"), b \in SchemaChoices("b"),
        f \in {<<>>} \cup {<<FuncSection("f", io[1], io[2])>> :
                              io \in {<<<<>>, <<>>>>, <<<<sa>>, <<>>>>, <<<<>>, <<sa>>>>}},
        m \in {<<>>} \cup {<<ModSection("m", ms, mf, <<>>)>> :
                              ms \in {<<>>, <<sa>>, <<sb>>},
                              mf \in {<<>>, <<<<"func", "f">>>>}} }

InitUnit ==
    /\ pc = "parsed"
    /\ unit \in PipelineUnits \cup SchemaUnits
    /\ unitDiags = Idle
    /\ files = Idle /\ assignments = Idle
    /\ symbols = Idle /\ symDiags = Idle /\ call = Idle /\ resDiags = <<>>
    /\ project = Idle /\ keyOrder = Idle /\ projDiags = Idle
    /\ deploy = Idle /\ deployDiags = Idle
    /\ LoadIdle

CheckSurvFile ==
    /\ pc = "parsed"
    /\ unitDiags' = check_surv_file(unit)
    /\ pc' = "checked"
    /\ UNCHANGED <<files, assignments, symbols, symDiags, call, resDiags, unit,
                   project, keyOrder, projDiags, deploy, deployDiags, loadVars>>

SpecUnit == InitUnit /\ [][CheckSurvFile]_vars

----------------------------------------------------------------------------
(* project.rs and project_checker.rs: the project checker.  A project is
   a sequence of units; a unit's path is its index.  A unit carries its
   sections and its `require` list, whose targets are module ids. *)

\* The Mod sections of a unit, as ids, in section order.
ModsInFile(file) ==
    ForEach(file.sections, LAMBDA sec :
        IF sec.tag = "Mod" THEN <<mod_id(sec)>> ELSE <<>>)

\* ProjectAST::from_files: mods maps an id to the ModRef of the last
\* section that declares it.
from_files(fs) ==
    LET decls == Flatten([i \in 1..Len(fs) |->
                    ForEach(fs[i].sections, LAMBDA sec :
                        IF sec.tag = "Mod"
                        THEN <<[id |-> mod_id(sec), file |-> i, name |-> sec.name]>>
                        ELSE <<>>)])
        last(id) == CHOOSE i \in 1..Len(decls) :
                        /\ decls[i].id = id
                        /\ \A j \in (i + 1)..Len(decls) : decls[j].id # id
    IN  [files |-> fs,
         mods |-> [id \in {decls[i].id : i \in 1..Len(decls)} |-> decls[last(id)]]]

\* Faulty variant: repeated edges are kept.
RetainFirst_KeepAll(deps) == deps

\* deps.retain(|edge| seen.insert((from_mod, to_mod))): the first edge of
\* every (from, to) pair, in order.
RetainFirst(deps) ==
    LET idx == SelectSeq([i \in 1..Len(deps) |-> i], LAMBDA i :
                   \A j \in 1..(i - 1) :
                       <<deps[j].from_mod, deps[j].to_mod>>
                           # <<deps[i].from_mod, deps[i].to_mod>>)
    IN  [k \in 1..Len(idx) |-> deps[idx[k]]]

\* ProjectAST::collect_normalized_requires
collect_normalized_requires(proj) ==
    RetainFirst(Flatten([i \in 1..Len(proj.files) |->
        LET file == proj.files[i]
            mods_in_file == ModsInFile(file)
        IN  IF mods_in_file = <<>> THEN <<>>
            ELSE ForEach(file.requires, LAMBDA require :
                     ForEach(mods_in_file, LAMBDA from_mod :
                         <<[from_mod |-> from_mod, to_mod |-> require,
                            raw |-> require, file |-> i]>>))]))

\* ProjectChecker::check_requires
check_requires(proj, normalized) ==
    ForEach(normalized, LAMBDA edge :
        IF edge.to_mod \notin DOMAIN proj.mods
        THEN <<Diagnostic("error", "UnresolvedRequire",
                          <<edge.to_mod, edge.from_mod>>, edge.file)>>
        ELSE <<>>)

\* The `graph` map of check_cycles: every endpoint of an edge is a key, and
\* a key's list holds its targets in edge order.
RequireGraph(normalized) ==
    LET nodes == {normalized[i].from_mod : i \in 1..Len(normalized)}
                 \cup {normalized[i].to_mod : i \in 1..Len(normalized)}
    IN  [n \in nodes |->
            LET es == SelectSeq(normalized, LAMBDA e : e.from_mod = n)
            IN  [k \in 1..Len(es) |-> es[k].to_mod]]

\* The `edge_map` of check_cycles: the last edge inserted for a pair.
EdgeMap(normalized) ==
    LET last(pair) == CHOOSE i \in 1..Len(normalized) :
            /\ <<normalized[i].from_mod, normalized[i].to_mod>> = pair
            /\ \A j \in (i + 1)..Len(normalized) :
                  <<normalized[j].from_mod, normalized[j].to_mod>> # pair
    IN  [pair \in {<<normalized[i].from_mod, normalized[i].to_mod>> :
                      i \in 1..Len(normalized)} |-> normalized[last(pair)]]

Position(stack, x) == CHOOSE i \in 1..Len(stack) :
                          stack[i] = x /\ \A j \in 1..(i - 1) : stack[j] # x

\* The dfs function nested in check_cycles.  st = [color, stack, cycles].
RECURSIVE dfs(_, _, _)
RECURSIVE dfs_neighbors(_, _, _, _)
dfs(node, graph, st) ==
    LET entered == [st EXCEPT !.color[node] = "Gray", !.stack = Append(@, node)]
        visited == dfs_neighbors(node, graph, 1, entered)
    IN  [visited EXCEPT !.color[node] = "Black",
                        !.stack = SubSeq(@, 1, Len(@) - 1)]

\* The `for next in neighbors` loop of dfs, from the i-th neighbour on.
dfs_neighbors(node, graph, i, st) ==
    IF i > Len(graph[node]) THEN st
    ELSE LET next == graph[node][i]
             after ==
                 CASE st.color[next] = "White" -> dfs(next, graph, st)
                   [] st.color[next] = "Gray" ->
                        IF Contains(st.stack, next)
                        THEN [st EXCEPT !.cycles = Append(@,
                                 SubSeq(st.stack, Position(st.stack, next),
                                        Len(st.stack)))]
                        ELSE st
                   [] OTHER -> st
         IN  dfs_neighbors(node, graph, i + 1, after)

\* Faulty variant: every key starts a search with a fresh colour map.
RECURSIVE DfsFromKeys_FreshColors(_, _, _, _)
DfsFromKeys_FreshColors(keys, i, graph, st) ==
    IF i > Len(keys) THEN st
    ELSE DfsFromKeys_FreshColors(keys, i + 1, graph,
             dfs(keys[i], graph,
                 [st EXCEPT !.stack = <<>>,
                            !.color = [n \in DOMAIN graph |-> "White"]]))

\* The `for node in graph.keys()` loop of check_cycles, from the i-th key on.
RECURSIVE DfsFromKeys(_, _, _, _)
DfsFromKeys(keys, i, graph, st) ==
    IF i > Len(keys) THEN st
    ELSE DfsFromKeys(keys, i + 1, graph,
             IF st.color[keys[i]] = "White"
             THEN dfs(keys[i], graph, [st EXCEPT !.stack = <<>>])
             ELSE st)

\* The file of the first pair of the path that edge_map knows.
CycleFile(path, edge_map) ==
    LET known == SelectSeq([i \in 1..(Len(path) - 1) |-> i], LAMBDA i :
                     <<path[i], path[i + 1]>> \in DOMAIN edge_map)
    IN  IF known = <<>> THEN "require graph"
        ELSE edge_map[<<path[known[1]], path[known[1] + 1]>>].file

\* Faulty variant: a module that requires itself is reported as a cycle.
check_cycles_SelfLoops(normalized, keys) ==
    LET graph == RequireGraph(normalized)
        edge_map == EdgeMap(normalized)
        found == DfsFromKeys(keys, 1, graph,
                     [color |-> [n \in DOMAIN graph |-> "White"],
                      stack |-> <<>>, cycles |-> <<>>])
    IN  ForEach(found.cycles, LAMBDA cycle :
            LET path == Append(cycle, cycle[1])
            IN  <<Diagnostic("error", "RequireCycle", <<path>>,
                             CycleFile(path, edge_map))>>)

\* ProjectChecker::check_cycles; keys is the order of graph.keys().
check_cycles(normalized, keys) ==
    LET graph == RequireGraph(normalized)
        edge_map == EdgeMap(normalized)
        found == DfsFromKeys(keys, 1, graph,
                     [color |-> [n \in DOMAIN graph |-> "White"],
                      stack |-> <<>>, cycles |-> <<>>])
    IN  ForEach(found.cycles, LAMBDA cycle :
            IF Len(cycle) >= 2
            THEN LET path == Append(cycle, cycle[1])
                 IN  <<Diagnostic("error", "RequireCycle", <<path>>,
                                  CycleFile(path, edge_map))>>
            ELSE <<>>)

\* check_project and ProjectChecker::check
check_project(proj, keys) ==
    LET normalized == collect_normalized_requires(proj)
    IN  check_requires(proj, normalized) \o check_cycles(normalized, keys)

----------------------------------------------------------------------------
(* Project checker: bounded inputs and the state machine *)

MaxRing == 4
MaxProjUnits == 2
MaxRequires == 2

ModNames == <<"a", "b", "c", "d", "e", "f">>

Perms(S) == {s \in [1..Cardinality(S) -> S] : Range(s) = S}

ProjectUnit(mods, requires) ==
    [sections |-> [i \in 1..Len(mods) |-> ModSection(mods[i], <<>>, <<>>, <<>>)],
     requires |-> [i \in 1..Len(requires) |-> <<"mod", requires[i]>>]]

\* One unit per module, every module requiring the next one of the ring.
RingProjects ==
    {[i \in 1..Len(p) |-> ProjectUnit(<<p[i]>>, <<p[(i % Len(p)) + 1]>>)] :
        p \in UNION {Perms({ModNames[i] : i \in 1..n}) : n \in 2..MaxRing}}

\* Modules a, b and c, each in its own unit with any short require list.
GraphProjects ==
    {<<ProjectUnit(<<"a">>, ra), ProjectUnit(<<"b">>, rb), ProjectUnit(<<"c">>, rc)>> :
        ra \in SeqsUpTo({"a", "b", "c"}, MaxRequires),
        rb \in SeqsUpTo({"a", "b", "c"}, MaxRequires),
        rc \in SeqsUpTo({"a", "b", "c"}, MaxRequires)}

\* Units with no module, several modules, repeated and unresolved requires.
UnitPool ==
    {ProjectUnit(mods, requires) :
        mods \in {<<>>, <<"a">>, <<"b">>, <<"a", "b">>},
        requires \in {<<>>, <<"a">>, <<"b">>, <<"z">>, <<"a", "b">>, <<"b", "a">>,
                      <<"z", "z">>}}

Projects == RingProjects \cup GraphProjects \cup SeqsUpTo(UnitPool, MaxProjUnits)

InitProject ==
    /\ pc = "loaded"
    /\ \E fs \in Projects : project = from_files(fs)
    /\ keyOrder = Idle /\ projDiags = Idle
    /\ files = Idle /\ assignments = Idle
    /\ symbols = Idle /\ symDiags = Idle /\ call = Idle /\ resDiags = <<>>
    /\ unit = Idle /\ unitDiags = Idle
    /\ deploy = Idle /\ deployDiags = Idle
    /\ LoadIdle

\* check_project; the iteration order of the graph's keys is the hash
\* map's, any permutation of them.
CheckProject ==
    /\ pc = "loaded"
    /\ \E keys \in Perms(DOMAIN RequireGraph(collect_normalized_requires(project))) :
          /\ keyOrder' = keys
          /\ projDiags' = check_project(project, keys)
    /\ pc' = "project_checked"
    /\ UNCHANGED <<files, assignments, symbols, symDiags, call, resDiags, unit,
                   unitDiags, project, deploy, deployDiags, loadVars>>

SpecProject == InitProject /\ [][CheckProject]_vars

----------------------------------------------------------------------------
(* deploy/checker.rs: the deploy checker.  A string is its sequence of
   '.'-separated segments, the empty string the empty sequence; the keys of
   the maps of a DeployFile are one-segment names. *)

\* str::strip_prefix("<prefix>.")
strip_prefix(str, prefix) ==
    IF Len(str) >= 2 /\ str[1] = prefix THEN Some(Tail(str)) ELSE None

\* s.strip_prefix("<prefix>.").unwrap_or(s)
StripOr(str, prefix) ==
    IF strip_prefix(str, prefix) # None THEN strip_prefix(str, prefix)[1] ELSE str

\* The keys of deploy.jobs in BTreeMap order.
JobNames(dep) ==
    LET sorted == SelectSeq(NameOrder, LAMBDA n : <<n>> \in DOMAIN dep.jobs)
    IN  [i \in 1..Len(sorted) |-> <<sorted[i]>>]

\* check_undefined_references
check_undefined_references(dep) ==
    ForEach(JobNames(dep), LAMBDA job_name :
        LET job == dep.jobs[job_name]
        IN  ForEach(job.requires, LAMBDA req :
                IF req # <<>> /\ StripOr(req, "job") \notin DOMAIN dep.jobs
                THEN <<Diagnostic("error", "UndefinedJobReference",
                                  <<job_name, req>>, <<"deploy", "job", job_name, "requires">>)>>
                ELSE <<>>)
            \o (IF job.uses_target # <<>>
                   /\ StripOr(job.uses_target, "target") \notin DOMAIN dep.targets
                THEN <<Diagnostic("error", "UndefinedTargetReference",
                                  <<job_name, job.uses_target>>,
                                  <<"deploy", "job", job_name, "uses_target">>)>>
                ELSE <<>>)
            \o ForEach(job.needs_secrets, LAMBDA secret :
                IF StripOr(secret, "secret") \notin DOMAIN dep.secrets
                THEN <<Diagnostic("error", "UndefinedSecretReference",
                                  <<job_name, secret>>,
                                  <<"deploy", "job", job_name, "needs_secrets">>)>>
                ELSE <<>>)
            \o (IF job.uses_perm # <<>>
                   /\ StripOr(job.uses_perm, "perm") \notin DOMAIN dep.perms
                THEN <<Diagnostic("error", "UndefinedPermReference",
                                  <<job_name, job.uses_perm>>,
                                  <<"deploy", "job", job_name, "uses_perm">>)>>
                ELSE <<>>)
            \o ForEach(job.produces, LAMBDA artifact :
                IF StripOr(artifact, "artifact") \notin DOMAIN dep.artifacts
                THEN <<Diagnostic("warning", "UndefinedArtifactReference",
                                  <<job_name, artifact>>,
                                  <<"deploy", "job", job_name, "produces">>)>>
                ELSE <<>>))

\* Faulty variant: a job's requirement of itself is not an edge.
build_job_graph_NoSelfEdges(dep) ==
    LET stripped(job_name) ==
            [i \in 1..Len(dep.jobs[job_name].requires) |->
                StripOr(dep.jobs[job_name].requires[i], "job")]
        nodes == DOMAIN dep.jobs
                 \cup UNION {Range(stripped(j)) : j \in DOMAIN dep.jobs}
    IN  [n \in nodes |-> IF n \in DOMAIN dep.jobs
                         THEN SelectSeq(stripped(n), LAMBDA r : r # n) ELSE <<>>]

\* build_job_graph: every job and every required name is a key; a job's
\* list holds its requires, prefix stripped, in order.
build_job_graph(dep) ==
    LET stripped(job_name) ==
            [i \in 1..Len(dep.jobs[job_name].requires) |->
                StripOr(dep.jobs[job_name].requires[i], "job")]
        nodes == DOMAIN dep.jobs
                 \cup UNION {Range(stripped(j)) : j \in DOMAIN dep.jobs}
    IN  [n \in nodes |-> IF n \in DOMAIN dep.jobs THEN stripped(n) ELSE <<>>]

\* detect_cycle.  st = [color, path, cycle]; cycle is the Option returned.
\* A return of Some leaves the colours and the path as they are.
RECURSIVE detect_cycle(_, _, _)
RECURSIVE detect_neighbors(_, _, _, _)
detect_cycle(node, graph, st) ==
    detect_neighbors(node, graph, 1,
        [st EXCEPT !.color[node] = "Gray", !.path = Append(@, node)])

\* The `for next in neighbors` loop of detect_cycle, from the i-th
\* neighbour on, and the code after the loop.
detect_neighbors(node, graph, i, st) ==
    IF i > Len(graph[node])
    THEN [st EXCEPT !.color[node] = "Black",
                    !.path = SubSeq(@, 1, Len(@) - 1),
                    !.cycle = None]
    ELSE LET next == graph[node][i]
         IN  CASE st.color[next] = "White" ->
                    LET inner == detect_cycle(next, graph, st)
                    IN  IF inner.cycle # None THEN inner
                        ELSE detect_neighbors(node, graph, i + 1, inner)
               [] st.color[next] = "Gray" ->
                    IF Contains(st.path, next)
                    THEN [st EXCEPT !.cycle =
                             Some(SubSeq(st.path, Position(st.path, next),
                                         Len(st.path)))]
                    ELSE detect_neighbors(node, graph, i + 1, st)
               [] OTHER -> detect_neighbors(node, graph, i + 1, st)

\* The `for node in graph.keys()` loop of check_dag_structure, from the
\* i-th key on.  st = [color, path, diags]; color and path outlive a start.
RECURSIVE DagFromKeys(_, _, _, _)
DagFromKeys(keys, i, graph, st) ==
    IF i > Len(keys) THEN st
    ELSE IF st.color[keys[i]] # "White" THEN DagFromKeys(keys, i + 1, graph, st)
    ELSE LET r == detect_cycle(keys[i], graph,
                      [color |-> st.color, path |-> st.path, cycle |-> None])
         IN  DagFromKeys(keys, i + 1, graph,
                 [color |-> r.color, path |-> r.path,
                  diags |-> IF r.cycle # None
                            THEN Append(st.diags,
                                     Diagnostic("error", "DeployCycle",
                                                <<r.cycle[1], r.cycle[1][1]>>,
                                                <<"deploy", "job">>))
                            ELSE st.diags])

\* check_dag_structure; keys is the order of graph.keys().
check_dag_structure(dep, keys) ==
    LET graph == build_job_graph(dep)
    IN  DagFromKeys(keys, 1, graph,
            [color |-> [n \in DOMAIN graph |-> "White"],
             path |-> <<>>, diags |-> <<>>]).diags

\* The `while let Some(job) = queue.pop_front()` loop of
\* check_unreachable_jobs.
RECURSIVE Bfs(_, _, _)
Bfs(dep, queue, reachable) ==
    IF queue = <<>> THEN reachable
    ELSE LET job == Head(queue)
         IN  IF job \in reachable THEN Bfs(dep, Tail(queue), reachable)
             ELSE Bfs(dep,
                      Tail(queue) \o SelectSeq(JobNames(dep), LAMBDA name :
                          \E k \in 1..Len(dep.jobs[name].requires) :
                              StripOr(dep.jobs[name].requires[k], "job") = job),
                      reachable \cup {job})

\* Faulty variant: only the entry points and the jobs that require one of
\* them are reached.
check_unreachable_jobs_OneStep(dep) ==
    LET entry_points == SelectSeq(JobNames(dep), LAMBDA name :
                            dep.jobs[name].requires = <<>>)
        reachable == Range(entry_points) \cup
                     {name \in DOMAIN dep.jobs :
                         \E k \in 1..Len(dep.jobs[name].requires) :
                             StripOr(dep.jobs[name].requires[k], "job")
                                 \in Range(entry_points)}
    IN  IF DOMAIN dep.jobs = {} THEN <<>>
        ELSE IF entry_points = <<>>
        THEN <<Diagnostic("error", "NoEntryPoint", <<>>, <<"deploy", "job">>)>>
        ELSE ForEach(JobNames(dep), LAMBDA job_name :
                 IF job_name \notin reachable
                 THEN <<Diagnostic("warning", "UnreachableJob", <<job_name>>,
                                   <<"deploy", "job", job_name>>)>>
                 ELSE <<>>)

\* check_unreachable_jobs
check_unreachable_jobs(dep) ==
    IF DOMAIN dep.jobs = {} THEN <<>>
    ELSE LET entry_points == SelectSeq(JobNames(dep), LAMBDA name :
                                 dep.jobs[name].requires = <<>>)
             reachable == Bfs(dep, entry_points, {})
         IN  IF entry_points = <<>>
             THEN <<Diagnostic("error", "NoEntryPoint", <<>>, <<"deploy", "job">>)>>
             ELSE ForEach(JobNames(dep), LAMBDA job_name :
                      IF job_name \notin reachable
                      THEN <<Diagnostic("warning", "UnreachableJob", <<job_name>>,
                                        <<"deploy", "job", job_name>>)>>
                      ELSE <<>>)

\* Faulty variant: the scope list is searched for uses_target as written.
check_secret_scope_RawTarget(dep) ==
    ForEach(JobNames(dep), LAMBDA job_name :
        LET job == dep.jobs[job_name]
        IN  IF job.uses_target = <<>> THEN <<>>
            ELSE ForEach(job.needs_secrets, LAMBDA secret_ref :
                     LET secret_name == StripOr(secret_ref, "secret")
                     IN  IF /\ secret_name \in DOMAIN dep.secrets
                            /\ dep.secrets[secret_name].scope # <<>>
                            /\ ~Contains(dep.secrets[secret_name].scope, job.uses_target)
                         THEN <<Diagnostic("error", "SecretScopeViolation",
                                           <<job_name, secret_ref, job.uses_target>>,
                                           <<"deploy", "job", job_name, "needs_secrets">>)>>
                         ELSE <<>>))

\* check_secret_scope
check_secret_scope(dep) ==
    ForEach(JobNames(dep), LAMBDA job_name :
        LET job == dep.jobs[job_name]
            target_ref == <<"target">> \o StripOr(job.uses_target, "target")
        IN  IF job.uses_target = <<>> THEN <<>>
            ELSE ForEach(job.needs_secrets, LAMBDA secret_ref :
                     LET secret_name == StripOr(secret_ref, "secret")
                     IN  IF /\ secret_name \in DOMAIN dep.secrets
                            /\ dep.secrets[secret_name].scope # <<>>
                            /\ ~Contains(dep.secrets[secret_name].scope, target_ref)
                         THEN <<Diagnostic("error", "SecretScopeViolation",
                                           <<job_name, secret_ref, job.uses_target>>,
                                           <<"deploy", "job", job_name, "needs_secrets">>)>>
                         ELSE <<>>))

\* Faulty variant: the short kind name is not recognised.
IsProdKind_ProductionOnly(target) == target.kind = "production"

\* target.kind == "production" || target.kind == "prod"
IsProdKind(target) == target.kind = "production" \/ target.kind = "prod"

\* The has_prod_jobs flag of check_prod_safety.
has_prod_jobs(dep) ==
    \E job_name \in DOMAIN dep.jobs :
        LET t == strip_prefix(dep.jobs[job_name].uses_target, "target")
        IN  t # None /\ t[1] \in DOMAIN dep.targets /\ IsProdKind(dep.targets[t[1]])

\* Faulty variant: only the canary strategy is asked for a health check.
check_prod_safety_CanaryOnly(dep) ==
    (IF has_prod_jobs(dep)
     THEN (IF dep.gate = None
           THEN <<Diagnostic("error", "MissingProdGate", <<>>, <<"deploy">>)>>
           ELSE <<>>)
          \o (IF dep.rollback = None
              THEN <<Diagnostic("error", "MissingProdRollback", <<>>, <<"deploy">>)>>
              ELSE <<>>)
          \o (IF /\ dep.release # None
                 /\ dep.release[1].strategy = "canary"
                 /\ dep.release[1].health_check = <<>>
              THEN <<Diagnostic("error", "MissingHealthCheck",
                                <<dep.release[1].strategy>>, <<"deploy", "release">>)>>
              ELSE <<>>)
     ELSE <<>>)
    \o (IF dep.gate = None THEN <<>>
        ELSE ForEach(JobNames(dep), LAMBDA job_name :
                 LET t == strip_prefix(dep.jobs[job_name].uses_target, "target")
                 IN  IF /\ t # None
                        /\ t[1] \in DOMAIN dep.targets
                        /\ IsProdKind(dep.targets[t[1]])
                        /\ ~Contains(dep.gate[1].require_manual_approval_for,
                                     <<"target">> \o t[1])
                     THEN <<Diagnostic("error", "ProdJobWithoutApproval",
                                       <<job_name, <<"target">> \o t[1]>>,
                                       <<"deploy", "gate", "require_manual_approval_for">>)>>
                     ELSE <<>>))

\* check_prod_safety
check_prod_safety(dep) ==
    (IF has_prod_jobs(dep)
     THEN (IF dep.gate = None
           THEN <<Diagnostic("error", "MissingProdGate", <<>>, <<"deploy">>)>>
           ELSE <<>>)
          \o (IF dep.rollback = None
              THEN <<Diagnostic("error", "MissingProdRollback", <<>>, <<"deploy">>)>>
              ELSE <<>>)
          \o (IF /\ dep.release # None
                 /\ dep.release[1].strategy \in {"canary", "blue_green"}
                 /\ dep.release[1].health_check = <<>>
              THEN <<Diagnostic("error", "MissingHealthCheck",
                                <<dep.release[1].strategy>>, <<"deploy", "release">>)>>
              ELSE <<>>)
     ELSE <<>>)
    \o (IF dep.gate = None THEN <<>>
        ELSE ForEach(JobNames(dep), LAMBDA job_name :
                 LET t == strip_prefix(dep.jobs[job_name].uses_target, "target")
                 IN  IF /\ t # None
                        /\ t[1] \in DOMAIN dep.targets
                        /\ IsProdKind(dep.targets[t[1]])
                        /\ ~Contains(dep.gate[1].require_manual_approval_for,
                                     <<"target">> \o t[1])
                     THEN <<Diagnostic("error", "ProdJobWithoutApproval",
                                       <<job_name, <<"target">> \o t[1]>>,
                                       <<"deploy", "gate", "require_manual_approval_for">>)>>
                     ELSE <<>>))

\* Faulty variant: without a gate the approval list counts as empty instead
\* of the pass returning.
check_side_effects_safety_NoGateReturn(dep) ==
    LET approved == IF dep.gate = None THEN <<>>
                    ELSE dep.gate[1].require_manual_approval_for
    IN  ForEach(JobNames(dep), LAMBDA job_name :
            LET job == dep.jobs[job_name]
                target_ref == <<"target">> \o StripOr(job.uses_target, "target")
            IN  IF Contains(job.side_effects, "db_migration") /\ job.uses_target = <<>>
                THEN <<Diagnostic("error", "DbMigrationWithoutTarget", <<job_name>>,
                                  <<"deploy", "job", job_name>>)>>
                ELSE (IF /\ Contains(job.side_effects, "db_migration")
                         /\ ~Contains(approved, target_ref)
                      THEN <<Diagnostic("error", "DbMigrationWithoutApproval",
                                        <<job_name, target_ref>>,
                                        <<"deploy", "job", job_name, "side_effects">>)>>
                      ELSE <<>>)
                     \o (IF Contains(job.side_effects, "release") /\ dep.release = None
                         THEN <<Diagnostic("warning", "ReleaseWithoutStrategy",
                                           <<job_name>>,
                                           <<"deploy", "job", job_name, "side_effects">>)>>
                         ELSE <<>>))

\* Faulty variant: the approval list is searched for uses_target as written.
check_side_effects_safety_RawTarget(dep) ==
    IF dep.gate = None THEN <<>>
    ELSE ForEach(JobNames(dep), LAMBDA job_name :
             LET job == dep.jobs[job_name]
                 target_ref == job.uses_target
             IN  IF Contains(job.side_effects, "db_migration") /\ job.uses_target = <<>>
                 THEN <<Diagnostic("error", "DbMigrationWithoutTarget", <<job_name>>,
                                   <<"deploy", "job", job_name>>)>>
                 ELSE (IF /\ Contains(job.side_effects, "db_migration")
                          /\ ~Contains(dep.gate[1].require_manual_approval_for, target_ref)
                       THEN <<Diagnostic("error", "DbMigrationWithoutApproval",
                                         <<job_name, target_ref>>,
                                         <<"deploy", "job", job_name, "side_effects">>)>>
                       ELSE <<>>)
                      \o (IF Contains(job.side_effects, "release") /\ dep.release = None
                          THEN <<Diagnostic("warning", "ReleaseWithoutStrategy",
                                            <<job_name>>,
                                            <<"deploy", "job", job_name, "side_effects">>)>>
                          ELSE <<>>))

\* check_side_effects_safety
check_side_effects_safety(dep) ==
    IF dep.gate = None THEN <<>>
    ELSE ForEach(JobNames(dep), LAMBDA job_name :
             LET job == dep.jobs[job_name]
                 target_ref == <<"target">> \o StripOr(job.uses_target, "target")
             IN  IF Contains(job.side_effects, "db_migration") /\ job.uses_target = <<>>
                 THEN <<Diagnostic("error", "DbMigrationWithoutTarget", <<job_name>>,
                                   <<"deploy", "job", job_name>>)>>
                 ELSE (IF /\ Contains(job.side_effects, "db_migration")
                          /\ ~Contains(dep.gate[1].require_manual_approval_for, target_ref)
                       THEN <<Diagnostic("error", "DbMigrationWithoutApproval",
                                         <<job_name, target_ref>>,
                                         <<"deploy", "job", job_name, "side_effects">>)>>
                       ELSE <<>>)
                      \o (IF Contains(job.side_effects, "release") /\ dep.release = None
                          THEN <<Diagnostic("warning", "ReleaseWithoutStrategy",
                                            <<job_name>>,
                                            <<"deploy", "job", job_name, "side_effects">>)>>
                          ELSE <<>>))

\* check_deploy_file; keys is the order of the job graph's keys.
check_deploy_file(dep, keys) ==
    check_undefined_references(dep)
    \o check_dag_structure(dep, keys)
    \o check_unreachable_jobs(dep)
    \o check_secret_scope(dep)
    \o check_prod_safety(dep)
    \o check_side_effects_safety(dep)

----------------------------------------------------------------------------
(* Deploy checker: bounded inputs and the state machine *)

MaxJobRequires == 2

Target(name, kind) == [name |-> name, kind |-> kind]

Job(name, requires, uses_target, needs_secrets, uses_perm, produces, side_effects) ==
    [name |-> name, requires |-> requires, uses_target |-> uses_target,
     needs_secrets |-> needs_secrets, uses_perm |-> uses_perm,
     produces |-> produces, side_effects |-> side_effects]

Secret(name, scope) == [name |-> name, scope |-> scope]

Gate(approved) == [require_manual_approval_for |-> approved]

Release(strategy, health_check) ==
    [strategy |-> strategy, health_check |-> health_check]

Rollback == [on |-> <<"failure">>, strategy |-> "previous"]

\* A BTreeMap keyed by the names of its entries.
MapOf(entries) ==
    [k \in {<<e.name>> : e \in entries} |-> CHOOSE e \in entries : <<e.name>> = k]

DeployFile(targets, jobs, artifacts, secrets, perms, release, gate, rollback) ==
    [targets |-> MapOf(targets), jobs |-> MapOf(jobs),
     artifacts |-> MapOf(artifacts), secrets |-> MapOf(secrets),
     perms |-> MapOf(perms), release |-> release, gate |-> gate,
     rollback |-> rollback]

tp == <<"target", "p">>
ts == <<"target", "s">>

ReleaseOpts ==
    {None, Some(Release("canary", <<>>)), Some(Release("canary", <<"h">>)),
     Some(Release("blue_green", <<>>)), Some(Release("rolling", <<>>))}

\* Units that vary the kind of target p, the target and the side effects of
\* job a, an optional job b, and the gate, rollback and release sections.
GateUnits ==
    {DeployFile({Target("p", kind), Target("s", "staging")}, {a} \cup b,
                {}, {}, {}, release, gate, rollback) :
        kind \in {"production", "prod", "staging"},
        a \in {Job("a", <<>>, ut, <<>>, <<>>, <<>>, se) :
                  ut \in {<<>>, tp, <<"p">>, ts, <<"target", "u">>},
                  se \in {<<>>, <<"db_migration">>, <<"release">>,
                          <<"db_migration", "release">>}},
        b \in {{}} \cup {{Job("b", rq, ut, <<>>, <<>>, <<>>, se)} :
                  rq \in {<<>>, <<<<"job", "a">>>>, <<<<"a">>>>, <<<<"job", "z">>>>},
                  ut \in {<<>>, tp},
                  se \in {<<>>, <<"release">>, <<"db_migration">>}},
        release \in ReleaseOpts,
        gate \in {None} \cup {Some(Gate(l)) : l \in {<<>>, <<tp>>, <<ts>>, <<ts, tp>>}},
        rollback \in {None, Some(Rollback)}}

JobRefs == {<<"job", "a">>, <<"job", "b">>, <<"job", "c">>}

\* Jobs a, b and c with any short requires list over them.
JobGraphUnits ==
    {DeployFile({}, {Job("a", ra, <<>>, <<>>, <<>>, <<>>, <<>>),
                     Job("b", rb, <<>>, <<>>, <<>>, <<>>, <<>>),
                     Job("c", rc, <<>>, <<>>, <<>>, <<>>, <<>>)},
                {}, {}, {}, None, None, None) :
        ra \in SeqsUpTo(JobRefs, MaxJobRequires),
        rb \in SeqsUpTo(JobRefs, MaxJobRequires),
        rc \in SeqsUpTo(JobRefs, MaxJobRequires)}

\* Units without any job.
JoblessUnits ==
    {DeployFile({Target("p", "production")}, {}, {}, {}, {}, release, gate, None) :
        release \in ReleaseOpts, gate \in {None, Some(Gate(<<>>))}}

sk == <<"secret", "k">>

\* Units that vary the secret, permission and artifact references of job a
\* and the scope of secret k.
SecretUnits ==
    {DeployFile({Target("p", "production"), Target("s", "staging")},
                {Job("a", <<>>, ut, ns, up, pr, <<>>)},
                {[name |-> "i"]}, {Secret("k", scope)}, {[name |-> "r"]},
                None, Some(Gate(<<tp>>)), Some(Rollback)) :
        ut \in {<<>>, tp, <<"p">>, ts},
        ns \in {<<>>, <<sk>>, <<<<"k">>>>, <<<<"secret", "u">>>>, <<sk, sk>>},
        up \in {<<>>, <<"perm", "r">>, <<"perm", "u">>},
        pr \in {<<>>, <<<<"artifact", "i">>>>, <<<<"artifact", "u">>>>},
        scope \in {<<>>, <<tp>>, <<ts>>, <<tp, ts>>, <<<<"p">>>>}}

InitDeploy ==
    /\ pc = "parsed"
    /\ deploy \in GateUnits \cup JobGraphUnits \cup JoblessUnits \cup SecretUnits
    /\ deployDiags = Idle /\ keyOrder = Idle
    /\ files = Idle /\ assignments = Idle
    /\ symbols = Idle /\ symDiags = Idle /\ call = Idle /\ resDiags = <<>>
    /\ unit = Idle /\ unitDiags = Idle
    /\ project = Idle /\ projDiags = Idle
    /\ LoadIdle

\* check_deploy_file; the iteration order of the job graph's keys is the
\* hash map's, any permutation of them.
CheckDeployFile ==
    /\ pc = "parsed"
    /\ \E keys \in Perms(DOMAIN build_job_graph(deploy)) :
          /\ keyOrder' = keys
          /\ deployDiags' = check_deploy_file(deploy, keys)
    /\ pc' = "deploy_checked"
    /\ UNCHANGED <<files, assignments, symbols, symDiags, call, resDiags, unit,
                   unitDiags, project, projDiags, deploy, loadVars>>

SpecDeploy == InitDeploy /\ [][CheckDeployFile]_vars

----------------------------------------------------------------------------
(* package.rs and imports.rs: package assignment and import resolution.
   A path is the sequence of its components, "/" first when it is
   absolute; an import target is the sequence of its whitespace-separated
   parts. *)

\* Path::starts_with
starts_with(path, root) ==
    Len(root) <= Len(path) /\ SubSeq(path, 1, Len(root)) = root

\* Path::is_absolute
is_absolute(path) == path # <<>> /\ Head(path) = "/"

\* resolve_package_root
resolve_package_root(project_root, pkg) ==
    IF is_absolute(pkg.root) THEN pkg.root ELSE project_root \o pkg.root

\* The package_roots map of assign_packages_to_files.
PackageRoots(packages, project_root) ==
    [name \in DOMAIN packages |-> resolve_package_root(project_root, packages[name])]

\* Faulty variant: an undeclared unit under several roots is given the first.
AssignFile_FirstMatch(st, path, file, package_roots, keys) ==
    LET matching == SelectSeq(keys, LAMBDA name :
                        starts_with(path, package_roots[name]))
    IN  IF file.package # None \/ matching = <<>>
        THEN [st EXCEPT !.diagnostics =
                 Append(@, Diagnostic("error", "E_PACKAGE_UNASSIGNED", <<path>>, path))]
        ELSE [st EXCEPT !.assignments =
                 Append(@, [file_path |-> path, package |-> matching[1]])]

\* One iteration of `for (path, file) in files` of assign_packages_to_files.
\* st = [assignments, diagnostics]; keys is the order of package_roots.iter().
AssignFile(st, path, file, package_roots, keys) ==
    IF file.package # None
    THEN LET declared == file.package[1]
         IN  IF declared \in DOMAIN package_roots
             THEN IF starts_with(path, package_roots[declared])
                  THEN [st EXCEPT !.assignments =
                           Append(@, [file_path |-> path, package |-> declared])]
                  ELSE [st EXCEPT !.diagnostics =
                           Append(@, Diagnostic("error", "E_PACKAGE_ROOT_MISMATCH",
                                                <<path, declared>>, path))]
             ELSE [st EXCEPT !.diagnostics =
                      Append(@, Diagnostic("error", "E_PACKAGE_UNKNOWN",
                                           <<path, declared>>, path))]
    ELSE LET matching == SelectSeq(keys, LAMBDA name :
                             starts_with(path, package_roots[name]))
         IN  CASE Len(matching) = 0 ->
                    [st EXCEPT !.diagnostics =
                        Append(@, Diagnostic("error", "E_PACKAGE_UNASSIGNED",
                                             <<path>>, path))]
               [] Len(matching) = 1 ->
                    [st EXCEPT !.assignments =
                        Append(@, [file_path |-> path, package |-> matching[1]])]
               [] OTHER ->
                    [st EXCEPT !.diagnostics =
                        Append(@, Diagnostic("error", "E_PACKAGE_AMBIGUOUS",
                                             <<path, matching>>, path))]

RECURSIVE AssignFiles(_, _, _, _)
AssignFiles(st, fs, package_roots, keys) ==
    IF fs = <<>> THEN st
    ELSE AssignFiles(AssignFile(st, Head(fs).path, Head(fs).file, package_roots, keys),
                     Tail(fs), package_roots, keys)

\* assign_packages_to_files(manifest, project_root, files)
\*   -> (Vec<PackageAssignment>, Vec<Diagnostic>)
assign_packages_to_files(packages, project_root, fs, keys) ==
    IF DOMAIN packages = {}
    THEN [assignments |-> [i \in 1..Len(fs) |->
                              [file_path |-> fs[i].path, package |-> "default"]],
          diagnostics |-> <<>>]
    ELSE AssignFiles([assignments |-> <<>>, diagnostics |-> <<>>], fs,
                     PackageRoots(packages, project_root), keys)

\* keyword.eq_ignore_ascii_case("as")
EqIgnoreCaseAs(keyword) == keyword \in {"as", "As", "aS", "AS"}

\* parse_import_entry
parse_import_entry(raw) ==
    CASE Len(raw) = 1 -> [ok |-> TRUE, package |-> raw[1], alias |-> None]
      [] Len(raw) = 3 /\ EqIgnoreCaseAs(raw[2]) ->
            [ok |-> TRUE, package |-> raw[1], alias |-> Some(raw[3])]
      [] OTHER -> [ok |-> FALSE, kind |-> "E_IMPORT_SYNTAX"]

\* The assignment_map of parse_imports_with_alias: the package of the last
\* assignment of a path.
AssignmentMap(assigned) ==
    LET last(path) == CHOOSE i \in 1..Len(assigned) :
            /\ assigned[i].file_path = path
            /\ \A j \in (i + 1)..Len(assigned) : assigned[j].file_path # path
    IN  [path \in {assigned[i].file_path : i \in 1..Len(assigned)} |->
            assigned[last(path)].package]

\* Faulty variant: a name outside the manifest is rejected even when the
\* manifest declares no package.
ImportDirective_AlwaysChecked(st, raw, path, known_packages) ==
    LET parsed == parse_import_entry(raw.target)
    IN  IF parsed.ok
        THEN IF parsed.package \notin known_packages
             THEN [st EXCEPT !.diagnostics =
                      Append(@, Diagnostic("error", "E_IMPORT_UNKNOWN_PACKAGE",
                                           <<parsed.package>>, path))]
             ELSE [st EXCEPT !.imports =
                      Append(@, [package |-> parsed.package, alias |-> parsed.alias])]
        ELSE [st EXCEPT !.diagnostics =
                 Append(@, Diagnostic("error", parsed.kind, <<raw.target>>, path))]

\* One iteration of `for raw in &file.imports`.  st = [imports, diagnostics].
ImportDirective(st, raw, path, known_packages) ==
    LET parsed == parse_import_entry(raw.target)
    IN  IF parsed.ok
        THEN IF known_packages # {} /\ parsed.package \notin known_packages
             THEN [st EXCEPT !.diagnostics =
                      Append(@, Diagnostic("error", "E_IMPORT_UNKNOWN_PACKAGE",
                                           <<parsed.package>>, path))]
             ELSE [st EXCEPT !.imports =
                      Append(@, [package |-> parsed.package,
                                 alias |-> IF parsed.alias # None THEN parsed.alias
                                           ELSE raw.alias])]
        ELSE [st EXCEPT !.diagnostics =
                 Append(@, Diagnostic("error", parsed.kind, <<raw.target>>, path))]

RECURSIVE ImportDirectives(_, _, _, _)
ImportDirectives(st, raws, path, known_packages) ==
    IF raws = <<>> THEN st
    ELSE ImportDirectives(ImportDirective(st, Head(raws), path, known_packages),
                          Tail(raws), path, known_packages)

\* The `for (path, file) in files` loop of parse_imports_with_alias.
\* st = [contexts, diagnostics].
RECURSIVE ImportFiles(_, _, _, _)
ImportFiles(st, fs, assignment_map, known_packages) ==
    IF fs = <<>> THEN st
    ELSE LET path == Head(fs).path
             file == Head(fs).file
             unitSt == ImportDirectives([imports |-> <<>>,
                                         diagnostics |-> st.diagnostics],
                                        file.imports, path, known_packages)
         IN  ImportFiles(
                 [contexts |-> Append(st.contexts,
                      [file_path |-> path,
                       self_package |-> UnitPackage(file, path, assignment_map),
                       namespace |-> file.namespace,
                       imports |-> unitSt.imports]),
                  diagnostics |-> unitSt.diagnostics],
                 Tail(fs), assignment_map, known_packages)

\* parse_imports_with_alias(manifest, assignments, files)
\*   -> (Vec<FileImportContext>, Vec<Diagnostic>)
parse_imports_with_alias(packages, assigned, fs) ==
    ImportFiles([contexts |-> <<>>, diagnostics |-> <<>>], fs,
                AssignmentMap(assigned), DOMAIN packages)

----------------------------------------------------------------------------
(* symbol.rs: resolve_names_with_packages, the resolver's loop over the
   units and their references *)

Site(kind, reference, context) ==
    [kind |-> kind, reference |-> reference, context |-> context]

\* The calls of resolve_reference one section gives rise to, in order; the
\* context is "<section>.<name>.<field>(<reference>)".
SectionSites(section) ==
    CASE section.tag = "Func" ->
            [i \in 1..Len(section.input) |->
                Site("Schema", section.input[i],
                     <<"func", section.name, "input", section.input[i]>>)]
            \o [i \in 1..Len(section.output) |->
                Site("Schema", section.output[i],
                     <<"func", section.name, "output", section.output[i]>>)]
      [] section.tag = "Schema" ->
            (CASE section.kind = "edge" ->
                    (IF section.from # <<>>
                     THEN <<Site("Schema", section.from,
                                 <<"schema", section.name, "from", section.from>>)>>
                     ELSE <<>>)
                    \o (IF section.to # <<>>
                        THEN <<Site("Schema", section.to,
                                    <<"schema", section.name, "to", section.to>>)>>
                        ELSE <<>>)
               [] section.kind = "boundary" ->
                    [i \in 1..Len(section.over) |->
                        Site("Schema", section.over[i],
                             <<"schema", section.name, "over", section.over[i]>>)]
               [] OTHER -> <<>>)
      [] section.tag = "Mod" ->
            [i \in 1..Len(section.schemas) |->
                Site("Schema", section.schemas[i],
                     <<"mod", section.name, "schemas", section.schemas[i]>>)]
            \o [i \in 1..Len(section.funcs) |->
                Site("Func", section.funcs[i],
                     <<"mod", section.name, "funcs", section.funcs[i]>>)]
            \o [i \in 1..Len(section.pipeline) |->
                Site("Func", section.pipeline[i],
                     <<"mod", section.name, "pipeline", section.pipeline[i]>>)]
      [] OTHER -> <<>>   \* Section::Meta, Section::Status

RECURSIVE ResolveSites(_, _, _, _, _)
ResolveSites(syms, sites, path, ctx, diags) ==
    IF sites = <<>> THEN diags
    ELSE ResolveSites(syms, Tail(sites), path, ctx,
             resolve_reference(syms, Head(sites).kind, Head(sites).reference,
                               path, ctx, Head(sites).context, diags))

\* ctx_map: the last context of a path.
CtxMap(import_contexts) ==
    LET last(path) == CHOOSE i \in 1..Len(import_contexts) :
            /\ import_contexts[i].file_path = path
            /\ \A j \in (i + 1)..Len(import_contexts) :
                  import_contexts[j].file_path # path
    IN  [path \in {import_contexts[i].file_path : i \in 1..Len(import_contexts)} |->
            import_contexts[last(path)]]

\* The `for (path, file) in files` loop: a unit without a context is skipped.
RECURSIVE ResolveFiles(_, _, _, _)
ResolveFiles(syms, fs, ctx_map, diags) ==
    IF fs = <<>> THEN diags
    ELSE LET path == Head(fs).path
             file == Head(fs).file
         IN  IF path \notin DOMAIN ctx_map
             THEN ResolveFiles(syms, Tail(fs), ctx_map, diags)
             ELSE ResolveFiles(syms, Tail(fs), ctx_map,
                      ResolveSites(syms,
                          Flatten([i \in 1..Len(file.sections) |->
                                      SectionSites(file.sections[i])]),
                          path, ctx_map[path], diags))

\* resolve_names_with_packages(files, symbols, import_contexts) -> Vec<Diagnostic>
resolve_names_with_packages(fs, syms, import_contexts) ==
    ResolveFiles(syms, fs, CtxMap(import_contexts), <<>>)

----------------------------------------------------------------------------
(* Bounded inputs and the state machine of project loading: package
   assignment, then import resolution. *)

MaxLoadUnits == 2
MaxImportDecls == 2

PackageSection(root) == [root |-> root]

ProjectRoot == <<"/", "w">>

\* Manifests: none, one package (relative or absolute root), two packages
\* with disjoint, nested, equal and empty roots.
Manifests ==
    { <<>>,
      [n \in {"p"} |-> PackageSection(<<"p">>)],
      [n \in {"p"} |-> PackageSection(<<"/", "w", "p">>)],
      [n \in {"q"} |-> PackageSection(<<"q">>)],
      [n \in {"p", "q"} |-> PackageSection(<<n>>)],
      [n \in {"p", "q"} |-> PackageSection(IF n = "p" THEN <<"p">> ELSE <<"p", "sub">>)],
      [n \in {"p", "q"} |-> PackageSection(<<"p">>)],
      [n \in {"p", "q"} |-> PackageSection(IF n = "p" THEN <<"p">> ELSE <<>>)] }

LoadPaths ==
    { <<"/", "w", "p", "f">>, <<"/", "w", "p", "sub", "g">>,
      <<"/", "w", "q", "h">>, <<"/", "w", "o">> }

ImportDecl(target) == [target |-> target, alias |-> None]

LoadFile(path, package, imports) ==
    [path |-> path,
     file |-> [package |-> package, namespace |-> None, imports |-> imports,
               requires |-> <<>>, sections |-> <<>>]]

\* Units that differ in where they lie and in the package they declare.
PackagePool ==
    { LoadFile(path, package, <<>>) :
        path \in LoadPaths, package \in {None} \cup {Some(n) : n \in {"p", "q", "z"}} }

PackageLists ==
    { fs \in SeqsUpTo(PackagePool, MaxLoadUnits) :
        \A i, j \in 1..Len(fs) : i # j => fs[i].path # fs[j].path }

\* Import directives: a bare package, known or not; an alias in either
\* letter case; a wrong keyword; two, four and no words.
ImportTargets ==
    { <<"p">>, <<"q">>, <<"z">>, <<"q", "as", "x">>, <<"z", "AS", "x">>,
      <<"q", "is", "x">>, <<"q", "x">>, <<"q", "as", "x", "y">>, <<>> }

ImportLists ==
    { Prefix \o <<LoadFile(<<"/", "w", "p", "f">>, None, imports)>> :
        Prefix \in {<<>>} \cup
                   { <<LoadFile(<<"/", "w", "o">>, None, <<ImportDecl(t)>>)>> :
                        t \in {<<"q">>, <<"z">>, <<"q", "x">>} },
        imports \in SeqsUpTo({ImportDecl(t) : t \in ImportTargets}, MaxImportDecls) }

DeclaringFile(path, package, imports, sections) ==
    [path |-> path,
     file |-> [package |-> package, namespace |-> None, imports |-> imports,
               requires |-> <<>>, sections |-> sections]]

\* Units with declarations and references: one outside every relative
\* package root, declaring no package or an unknown one, then possibly one
\* under the root of p.
DeclaringLists ==
    { <<DeclaringFile(<<"/", "w", "o">>, package, imports, secs)>> \o Second :
        package \in {None, Some("z")},
        imports \in {<<>>, <<ImportDecl(<<"z">>)>>, <<ImportDecl(<<"q", "x">>)>>},
        secs \in { <<FuncSection("f", <<sa>>, <<>>)>>,
                   <<SchemaSection("a", "node", <<>>, <<>>, <<>>)>>,
                   <<SchemaSection("a", "node", <<>>, <<>>, <<>>),
                     FuncSection("f", <<sa>>, <<sb>>)>> },
        Second \in {<<>>} \cup
            { <<DeclaringFile(<<"/", "w", "p", "f">>, None, <<>>, secs2)>> :
                secs2 \in { <<SchemaSection("a", "node", <<>>, <<>>, <<>>)>>,
                            <<SchemaSection("e", "edge", sa, sb, <<>>)>>,
                            <<ModSection("m", <<sa>>, <<<<"func", "f">>>>, <<>>)>> } } }

InitLoad ==
    /\ pc = "discovered"
    /\ manifest \in Manifests
    /\ projectRoot = ProjectRoot
    /\ files \in PackageLists \cup ImportLists \cup DeclaringLists
    /\ pkgAssignments = Idle /\ pkgDiags = Idle
    /\ contexts = Idle /\ importDiags = Idle
    /\ keyOrder = Idle /\ assignments = Idle
    /\ symbols = Idle /\ symDiags = Idle /\ call = Idle /\ resDiags = <<>>
    /\ unit = Idle /\ unitDiags = Idle
    /\ project = Idle /\ projDiags = Idle
    /\ deploy = Idle /\ deployDiags = Idle

\* assign_packages_to_files; the iteration order of package_roots is the
\* hash map's, any permutation of its keys.
AssignPackages ==
    /\ pc = "discovered"
    /\ \E keys \in Perms(DOMAIN manifest) :
          LET result == assign_packages_to_files(manifest, projectRoot, files, keys)
          IN  /\ keyOrder' = keys
              /\ pkgAssignments' = result.assignments
              /\ pkgDiags' = result.diagnostics
    /\ pc' = "assigned"
    /\ UNCHANGED <<files, assignments, symbols, symDiags, call, resDiags, unit,
                   unitDiags, project, projDiags, deploy, deployDiags,
                   manifest, projectRoot, contexts, importDiags>>

\* parse_imports_with_alias on the assignments just computed.
ParseImports ==
    /\ pc = "assigned"
    /\ LET result == parse_imports_with_alias(manifest, pkgAssignments, files)
       IN  /\ contexts' = result.contexts
           /\ importDiags' = result.diagnostics
    /\ pc' = "imported"
    /\ UNCHANGED <<files, assignments, symbols, symDiags, call, resDiags, unit,
                   unitDiags, project, projDiags, deploy, deployDiags, keyOrder,
                   manifest, projectRoot, pkgAssignments, pkgDiags>>

\* build_symbol_table_with_packages on the loaded units and the assignment map.
BuildLoadedSymbols ==
    /\ pc = "imported"
    /\ LET r == build_symbol_table_with_packages(files, AssignmentMap(pkgAssignments))
       IN  symbols' = r.entries /\ symDiags' = r.diags
    /\ pc' = "symbols_built"
    /\ UNCHANGED <<files, assignments, call, resDiags, unit, unitDiags,
                   project, keyOrder, projDiags, deploy, deployDiags, loadVars>>

\* resolve_names_with_packages on the table and the import contexts.
ResolveNames ==
    /\ pc = "symbols_built"
    /\ resDiags' = resolve_names_with_packages(files, symbols, contexts)
    /\ pc' = "names_resolved"
    /\ UNCHANGED <<files, assignments, symbols, symDiags, call, unit, unitDiags,
                   project, keyOrder, projDiags, deploy, deployDiags, loadVars>>

NextLoad == AssignPackages \/ ParseImports \/ BuildLoadedSymbols \/ ResolveNames

SpecLoad == InitLoad /\ [][NextLoad]_vars

----------------------------------------------------------------------------
(* Properties of the symbol table and the resolver *)

Resolved == pc = "resolved"

\* The reference of the call has no head segment, or the head is a kind tag.
Unprefixed ==
    /\ call.reference # <<>>
    /\ LET sp == split_reference(call.reference)
       IN  sp.prefix = None \/ sp.prefix[1] \in {"schema", "func"}

\* The local name the call looks up: the last segment of the reference.
LocalOf(reference) == <<reference[Len(reference)]>>

\* Entries of the expected kind and local name, in table order.
Named == SelectSeq(symbols, LAMBDA e :
             e.kind = call.kind /\ <<e.local_name>> = LocalOf(call.reference))

InPackage(es, package) == SelectSeq(es, LAMBDA e : e.package = package)

\* Rule 2: the candidates of the self package; those in the unit's own
\* namespace when there are any.
SelfCandidates ==
    LET own == InPackage(Named, call.ctx.self_package)
        exact == SelectSeq(own, LAMBDA e : e.namespace = call.ctx.namespace)
    IN  IF call.ctx.namespace # None /\ exact # <<>> THEN exact ELSE own

\* Rule 3: what import i yields.
ImportFound(i) == InPackage(Named, call.ctx.imports[i].package)

ImportIdx == 1..Len(call.ctx.imports)

FqNames(es) == [i \in 1..Len(es) |-> es[i].fq_name]

ExpectedUndefined ==
    IF call.kind = "Schema" THEN "E_UNDEFINED_SCHEMA" ELSE "E_UNDEFINED_FUNC"

\* C1: when an unprefixed or kind-tagged reference has exactly one candidate
\* under the self-package rule and the same local name also exists in an
\* imported package, resolve_reference emits no diagnostic at all.
C1_SelfPackageWins ==
    (Resolved /\ Unprefixed /\ Len(SelfCandidates) = 1
     /\ \E i \in ImportIdx : ImportFound(i) # <<>>)
    => resDiags = <<>>

C1_Witness ==
    /\ Resolved /\ Unprefixed /\ Len(SelfCandidates) = 1
    /\ \E i \in ImportIdx : Len(ImportFound(i)) >= 2
    /\ resDiags = <<>>

\* The non-meta sections of all units, in unit-then-section order.
DeclaredSections ==
    Flatten([i \in 1..Len(files) |->
        LET decls == SelectSeq(files[i].file.sections,
                               LAMBDA sec : sec.tag \in {"Schema", "Func", "Mod"})
        IN  [j \in 1..Len(decls) |->
                [kind |-> decls[j].tag, local_name |-> decls[j].name,
                 namespace |-> files[i].file.namespace, file |-> files[i].path]]])

\* C2: the table holds one entry per schema/func/mod section in first-seen
\* order, and the number of W_AMBIGUOUS_NAME diagnostics is the number of
\* entries minus the number of distinct (kind, package, namespace, name) keys.
C2_DuplicateTolerance ==
    pc = "built" =>
        /\ Len(symbols) = Len(DeclaredSections)
        /\ \A i \in 1..Len(symbols) :
              /\ symbols[i].kind = DeclaredSections[i].kind
              /\ symbols[i].local_name = DeclaredSections[i].local_name
              /\ symbols[i].namespace = DeclaredSections[i].namespace
              /\ symbols[i].file = DeclaredSections[i].file
        /\ Kinds(symDiags) \subseteq {"W_AMBIGUOUS_NAME"}
        /\ Len(symDiags) =
              Len(symbols) - Cardinality({EntryKey(symbols[i]) : i \in 1..Len(symbols)})

\* Two units declare schema a in the same package and namespace (a third
\* unit, if any, declares something else): one warning, both entries kept.
C2_Witness ==
    /\ pc = "built"
    /\ \E i, j \in 1..Len(symbols) :
          /\ i < j
          /\ symbols[i].kind = "Schema" /\ symbols[j].kind = "Schema"
          /\ EntryKey(symbols[i]) = EntryKey(symbols[j])
          /\ symbols[i].file # symbols[j].file
    /\ Len(symDiags) = 1
    /\ Len(symbols) >= 2

\* The package an explicit prefix denotes, as the resolver's rule 1 states it.
PrefixOf(reference) == Head(reference)

\* Rule 1 applies and the prefix denotes a package.
PrefixedCall == call.reference # <<>> /\ ~Unprefixed

PrefixPackage == resolve_prefix(PrefixOf(call.reference), call.ctx)

PackageCandidates == InPackage(Named, PrefixPackage[1])

ImportsEmpty == \A i \in ImportIdx : ImportFound(i) = <<>>

ImportsAmbiguous ==
    \/ \E i \in ImportIdx : Len(ImportFound(i)) >= 2
    \/ Cardinality({i \in ImportIdx : Len(ImportFound(i)) = 1}) >= 2

\* The first rule that yields candidates yields two or more.
AmbiguousAtFirstYield ==
    \/ PrefixedCall /\ PrefixPackage # None /\ Len(PackageCandidates) >= 2
    \/ /\ Unprefixed
       /\ \/ Len(SelfCandidates) >= 2
          \/ SelfCandidates = <<>> /\ ImportsAmbiguous
          \/ SelfCandidates = <<>> /\ ImportsEmpty /\ Len(Named) >= 2

\* The packages the candidates of the deciding rule may come from.
DecidingPackages ==
    IF PrefixedCall THEN {PrefixPackage[1]}
    ELSE IF SelfCandidates # <<>> THEN {call.ctx.self_package}
    ELSE IF ~ImportsEmpty THEN {call.ctx.imports[i].package : i \in ImportIdx}
    ELSE {"p", "q", "r", "default"}

\* C3: a call appends zero or one diagnostic; when the first rule that
\* yields candidates yields two or more it appends exactly one warning
\* W_AMBIGUOUS_NAME listing at least two candidates, all from that rule.
C3_AmbiguityNonFatal ==
    Resolved =>
        /\ Len(resDiags) \in {call.before, call.before + 1}
        /\ AmbiguousAtFirstYield =>
              /\ Len(resDiags) = call.before + 1
              /\ LET d == resDiags[Len(resDiags)]
                 IN  /\ d.kind = "W_AMBIGUOUS_NAME"
                     /\ d.severity = "warning"
                     /\ Len(d.message[3]) >= 2
                     /\ \A k \in 1..Len(d.message[3]) :
                           /\ d.message[3][k] \in Range(FqNames(Named))
                           /\ d.message[3][k][2] \in DecidingPackages

\* Ambiguity inside the self package while an import also holds the name.
C3_Witness ==
    /\ Resolved /\ Unprefixed
    /\ Len(SelfCandidates) >= 2
    /\ \E i \in ImportIdx : ImportFound(i) # <<>>
    /\ Len(resDiags) = 1
    /\ resDiags[1].kind = "W_AMBIGUOUS_NAME"

\* C4: an unprefixed or kind-tagged reference is reported undefined if and
\* only if no entry of the expected kind has its local name in any package
\* or namespace; otherwise the only possible diagnostic is the ambiguity
\* warning.
C4_GlobalFallback ==
    (Resolved /\ Unprefixed) =>
        /\ (ExpectedUndefined \in Kinds(resDiags)) <=> (Named = <<>>)
        /\ Named # <<>> => Kinds(resDiags) \subseteq {"W_AMBIGUOUS_NAME"}
        /\ Named = <<>> => Kinds(resDiags) = {ExpectedUndefined}

\* The only entry with the name lives in a package that is neither the
\* unit's own nor imported, and the reference resolves silently.
C4_Witness ==
    /\ Resolved /\ Unprefixed
    /\ Len(Named) = 1
    /\ Named[1].package # call.ctx.self_package
    /\ \A i \in ImportIdx : call.ctx.imports[i].package # Named[1].package
    /\ resDiags = <<>>

----------------------------------------------------------------------------
(* Properties of the unit checker *)

Checked == pc = "checked"

SectionsOf(tag) == SelectSeq(unit.sections, LAMBDA sec : sec.tag = tag)

Schemas == Range(SectionsOf("Schema"))
Funcs == Range(SectionsOf("Func"))
Mods == Range(SectionsOf("Mod"))

SchemaIds == {<<"schema", x.name>> : x \in Schemas}
FuncIds == {<<"func", x.name>> : x \in Funcs}

FuncNamed(id) == CHOOSE x \in Funcs : <<"func", x.name>> = id

Occurrences(s, x) == Cardinality({i \in 1..Len(s) : s[i] = x})

\* The PipelineCycle diagnostics of module m, in order.
CyclesOf(m) ==
    SelectSeq(unitDiags, LAMBDA d :
        d.kind = "PipelineCycle" /\ d.message[1] = <<"mod", m.name>>)

\* C5: for every module, one PipelineCycle error per occurrence of a step
\* that appeared earlier in the pipeline, naming that step: as many as the
\* pipeline length minus the number of distinct steps.
C5_PipelineRepetition ==
    Checked =>
        \A m \in Mods :
            /\ Len(CyclesOf(m)) = Len(m.pipeline) - Cardinality(Range(m.pipeline))
            /\ \A i \in 1..Len(CyclesOf(m)) : CyclesOf(m)[i].severity = "error"
            /\ \A step \in Range(m.pipeline) :
                  Cardinality({i \in 1..Len(CyclesOf(m)) : CyclesOf(m)[i].message[2] = step})
                      = Occurrences(m.pipeline, step) - 1

\* [func.f, func.g, func.f] yields one PipelineCycle naming func.f.
C5_Witness ==
    /\ Checked
    /\ \E m \in Mods :
          /\ m.pipeline = << <<"func", "f">>, <<"func", "g">>, <<"func", "f">> >>
          /\ Len(CyclesOf(m)) = 1
          /\ CyclesOf(m)[1].message[2] = <<"func", "f">>

\* The adjacent pairs of m's pipeline whose steps are both declared funcs
\* with no schema common to the first's output and the second's input.
MismatchedPairs(m) ==
    LET idx == SelectSeq([i \in 1..(Len(m.pipeline) - 1) |-> i], LAMBDA i :
                   /\ m.pipeline[i] \in FuncIds
                   /\ m.pipeline[i + 1] \in FuncIds
                   /\ Range(FuncNamed(m.pipeline[i]).output)
                          \cap Range(FuncNamed(m.pipeline[i + 1]).input) = {})
    IN  [k \in 1..Len(idx) |-> <<m.pipeline[idx[k]], m.pipeline[idx[k] + 1]>>]

MismatchesOf(m) ==
    SelectSeq(unitDiags, LAMBDA d :
        d.kind = "PipelineTypeMismatch" /\ d.message[1] = <<"mod", m.name>>)

\* C6: for every module, exactly one PipelineTypeMismatch warning per
\* adjacent pair of declared funcs without a common schema (an empty list
\* has none), in pipeline order, and none for any other pair.
C6_PipelineFlow ==
    Checked =>
        \A m \in Mods :
            /\ Len(MismatchesOf(m)) = Len(MismatchedPairs(m))
            /\ \A k \in 1..Len(MismatchesOf(m)) :
                  /\ MismatchesOf(m)[k].severity = "warning"
                  /\ MismatchesOf(m)[k].message[2] = MismatchedPairs(m)[k][1]
                  /\ MismatchesOf(m)[k].message[3] = MismatchedPairs(m)[k][2]

\* [func.f, func.g] with disjoint non-empty output and input: exactly one
\* PipelineTypeMismatch and no error.
C6_Witness ==
    /\ Checked
    /\ \E m \in Mods :
          /\ m.name = "m"
          /\ m.pipeline = << <<"func", "f">>, <<"func", "g">> >>
          /\ FuncNamed(<<"func", "f">>).output = <<sa>>
          /\ FuncNamed(<<"func", "g">>).input = <<sb>>
          /\ Len(MismatchesOf(m)) = 1
    /\ \A i \in 1..Len(unitDiags) : unitDiags[i].severity # "error"

\* Schema id is named by the from or to of an edge schema or by the over
\* list of a boundary schema.
LinkedTo(id) ==
    \E t \in Schemas :
        \/ t.kind = "edge" /\ (t.from = id \/ t.to = id)
        \/ t.kind = "boundary" /\ id \in Range(t.over)

UnusedSchemaIds == {d.message[1] : d \in Range(OfKind(unitDiags, "UnusedSchema"))}

\* C7: a declared schema named by an edge's from/to or a boundary's over is
\* never reported as UnusedSchema.
C7_LinksCountAsUsage ==
    Checked => \A id \in SchemaIds : LinkedTo(id) => id \notin UnusedSchemaIds

\* Schema a is named only by the from of edge b: no func and no module
\* mentions it, and it is not reported.
C7_Witness ==
    /\ Checked
    /\ sa \in SchemaIds
    /\ \E t \in Schemas : t.name = "b" /\ t.kind = "edge" /\ t.from = sa
    /\ \A f \in Funcs : sa \notin Range(f.input) \cup Range(f.output)
    /\ \A m \in Mods : sa \notin Range(m.schemas)
    /\ \A t \in Schemas : t.to # sa /\ sa \notin Range(t.over)
    /\ sa \notin UnusedSchemaIds
    /\ sb \in UnusedSchemaIds

----------------------------------------------------------------------------
(* Properties of the project checker *)

ProjectChecked == pc = "project_checked"

\* The modules the units declare, and the (module, target) pairs such that
\* a unit declares the module and lists the target.
DeclaredMods ==
    UNION {Range(ModsInFile(project.files[i])) : i \in 1..Len(project.files)}

RequirePairs ==
    UNION {Range(ModsInFile(project.files[i])) \X Range(project.files[i].requires) :
              i \in 1..Len(project.files)}

RequiredBy(m) == {pair[2] : pair \in {q \in RequirePairs : q[1] = m}}

RingNext(m) == CHOOSE r \in RequiredBy(m) : TRUE

RECURSIVE RingWalk(_, _)
RingWalk(m, k) == IF k = 0 THEN m ELSE RingWalk(RingNext(m), k - 1)

\* The require graph is one simple directed cycle through n >= 2 modules,
\* each declared in its own unit.
SimpleRing ==
    LET n == Len(project.files)
    IN  /\ n >= 2
        /\ Cardinality(DeclaredMods) = n
        /\ \A i \in 1..n : Len(ModsInFile(project.files[i])) = 1
        /\ \A m \in DeclaredMods :
              /\ Cardinality(RequiredBy(m)) = 1
              /\ RequiredBy(m) \subseteq DeclaredMods
        /\ \A m \in DeclaredMods : {RingWalk(m, k) : k \in 0..(n - 1)} = DeclaredMods

\* C8: for a simple ring of n >= 2 modules, whichever order the search
\* takes its start modules in, check_project emits exactly one RequireCycle;
\* its path ends at the module it starts with, lists every module of the
\* ring once before that, and each listed module requires the next.
C8_ModuleGraphCycle ==
    (ProjectChecked /\ SimpleRing) =>
        /\ CountKind(projDiags, "RequireCycle") = 1
        /\ LET path == OfKind(projDiags, "RequireCycle")[1].message[1]
               n == Len(project.files)
           IN  /\ Len(path) = n + 1
               /\ path[n + 1] = path[1]
               /\ {path[i] : i \in 1..n} = DeclaredMods
               /\ \A i \in 1..n : path[i + 1] = RingNext(path[i])

\* mod.a requires mod.b, mod.b requires mod.c, mod.c requires mod.a; the
\* search starts at mod.b and reports b -> c -> a -> b.
C8_Witness ==
    /\ ProjectChecked /\ SimpleRing
    /\ DeclaredMods = {<<"mod", "a">>, <<"mod", "b">>, <<"mod", "c">>}
    /\ RingNext(<<"mod", "a">>) = <<"mod", "b">>
    /\ RingNext(<<"mod", "b">>) = <<"mod", "c">>
    /\ keyOrder[1] = <<"mod", "b">>
    /\ Len(projDiags) = 1
    /\ projDiags[1].kind = "RequireCycle"
    /\ projDiags[1].message[1] =
          << <<"mod", "b">>, <<"mod", "c">>, <<"mod", "a">>, <<"mod", "b">> >>

----------------------------------------------------------------------------
(* Properties of the deploy checker *)

DeployChecked == pc = "deploy_checked"

\* The jobs whose uses_target is `target.T` for a declared target T of kind
\* production or prod.
ProdJobs ==
    {j \in DOMAIN deploy.jobs :
        LET ut == deploy.jobs[j].uses_target
        IN  /\ Len(ut) >= 2
            /\ Head(ut) = "target"
            /\ Tail(ut) \in DOMAIN deploy.targets
            /\ deploy.targets[Tail(ut)].kind \in {"production", "prod"}}

\* C9: when some job uses `target.T` and T is a declared target of kind
\* production or prod, MissingProdGate is emitted iff the unit has no gate
\* and MissingProdRollback iff it has no rollback; and a gate whose approval
\* list contains `target.T` leaves that job without ProdJobWithoutApproval.
C9_ProductionGating ==
    (DeployChecked /\ ProdJobs # {}) =>
        /\ ("MissingProdGate" \in Kinds(deployDiags)) <=> (deploy.gate = None)
        /\ ("MissingProdRollback" \in Kinds(deployDiags)) <=> (deploy.rollback = None)
        /\ \A j \in ProdJobs :
              (/\ deploy.gate # None
               /\ deploy.jobs[j].uses_target
                      \in Range(deploy.gate[1].require_manual_approval_for))
              => \A i \in 1..Len(deployDiags) :
                    ~(deployDiags[i].kind = "ProdJobWithoutApproval"
                      /\ deployDiags[i].message[1] = j)

\* Job a uses target.p of kind prod, the gate lists target.p and there
\* is no rollback: MissingProdRollback and no ProdJobWithoutApproval.
C9_Witness ==
    /\ DeployChecked
    /\ ProdJobs = {<<"a">>}
    /\ deploy.targets[<<"p">>].kind = "prod"
    /\ deploy.gate = Some(Gate(<<tp>>))
    /\ deploy.rollback = None
    /\ "MissingProdRollback" \in Kinds(deployDiags)
    /\ "MissingProdGate" \notin Kinds(deployDiags)
    /\ "ProdJobWithoutApproval" \notin Kinds(deployDiags)

\* Every reference of the unit names a symbol declared in it, every declared
\* schema and func is referred to, no pipeline repeats a step and every
\* adjacent pipeline pair shares a schema.
Consistent ==
    /\ \A f \in Funcs : Range(f.input) \cup Range(f.output) \subseteq SchemaIds
    /\ \A m \in Mods :
          /\ Range(m.schemas) \subseteq SchemaIds
          /\ Range(m.funcs) \cup Range(m.pipeline) \subseteq FuncIds
          /\ Cardinality(Range(m.pipeline)) = Len(m.pipeline)
          /\ \A i \in 1..(Len(m.pipeline) - 1) :
                Range(FuncNamed(m.pipeline[i]).output)
                    \cap Range(FuncNamed(m.pipeline[i + 1]).input) # {}
    /\ \A t \in Schemas :
          /\ t.kind = "edge" => ({t.from, t.to} \ {<<>>}) \subseteq SchemaIds
          /\ t.kind = "boundary" => Range(t.over) \subseteq SchemaIds
    /\ \A id \in SchemaIds :
          \/ \E f \in Funcs : id \in Range(f.input) \cup Range(f.output)
          \/ \E m \in Mods : id \in Range(m.schemas)
          \/ LinkedTo(id)
    /\ \A id \in FuncIds : \E m \in Mods : id \in Range(m.funcs) \cup Range(m.pipeline)

\* C10: check_surv_file returns an empty list for a consistent unit.
C10_NoFalsePositives == (Checked /\ Consistent) => unitDiags = <<>>

\* Schema a (node), func f with input [] and output [schema.a], module m
\* with schemas [schema.a], funcs [func.f] and an empty pipeline.
C10_Witness ==
    /\ Checked /\ Consistent
    /\ \E x \in Schemas : x.name = "a" /\ x.kind = "node"
    /\ \E f \in Funcs : f.input = <<>> /\ f.output = <<sa>>
    /\ \E m \in Mods :
          m.schemas = <<sa>> /\ m.funcs = << <<"func", "f">> >> /\ m.pipeline = <<>>
    /\ Cardinality(Schemas) = 1
    /\ unitDiags = <<>>

----------------------------------------------------------------------------
(* Further properties of the deploy checker *)

KindSeq(diags) == [i \in 1..Len(diags) |-> diags[i].kind]

\* Jobs a (no requires) and b (requires job.a, uses target.p of kind
\* production, side effect db_migration); no gate, rollback or release.
EndToEndUnit ==
    DeployFile({Target("p", "production"), Target("s", "staging")},
               {Job("a", <<>>, <<>>, <<>>, <<>>, <<>>, <<>>),
                Job("b", <<<<"job", "a">>>>, tp, <<>>, <<>>, <<>>, <<"db_migration">>)},
               {}, {}, {}, None, None, None)

GatePolicyKinds ==
    {"ProdJobWithoutApproval", "DbMigrationWithoutTarget",
     "DbMigrationWithoutApproval", "ReleaseWithoutStrategy"}

\* C11: without a gate section check_deploy_file emits no
\* ProdJobWithoutApproval, DbMigrationWithoutTarget,
\* DbMigrationWithoutApproval or ReleaseWithoutStrategy, whatever the jobs
\* declare; the end-to-end unit gives exactly MissingProdGate and
\* MissingProdRollback.
C11_SilentWithoutGate ==
    (DeployChecked /\ deploy.gate = None) =>
        /\ Kinds(deployDiags) \cap GatePolicyKinds = {}
        /\ deploy = EndToEndUnit =>
              KindSeq(deployDiags) = <<"MissingProdGate", "MissingProdRollback">>

\* The end-to-end unit was checked and gave the two missing-section errors.
C11_Witness ==
    /\ DeployChecked
    /\ deploy = EndToEndUnit
    /\ Len(deployDiags) = 2
    /\ Kinds(deployDiags) = {"MissingProdGate", "MissingProdRollback"}

\* The job-requires relation: job j lists k, with or without the `job.`
\* prefix.
JobRequires(j, k) ==
    /\ j \in DOMAIN deploy.jobs
    /\ \E i \in 1..Len(deploy.jobs[j].requires) :
          LET req == deploy.jobs[j].requires[i]
          IN  k = IF Len(req) >= 2 /\ req[1] = "job" THEN Tail(req) ELSE req

\* The job paths of the DeployCycle diagnostics, in order of emission.
ReportedCycles ==
    LET ds == OfKind(deployDiags, "DeployCycle")
    IN  [i \in 1..Len(ds) |-> ds[i].message[1]]

\* In the path j1 -> ... -> jk -> j1 every job requires the one after it.
GenuineCycle(cycle) ==
    /\ cycle # <<>>
    /\ \A i \in 1..Len(cycle) : JobRequires(cycle[i], cycle[(i % Len(cycle)) + 1])

\* C14: every DeployCycle diagnostic names a genuine cycle of the
\* job-requires graph, every job of its path requiring the job listed after
\* it, and no cycle is reported twice, whatever the order in which the
\* search picks its start jobs.
C14_GenuineCycles ==
    DeployChecked =>
        /\ \A i \in 1..Len(ReportedCycles) : GenuineCycle(ReportedCycles[i])
        /\ \A i, j \in 1..Len(ReportedCycles) :
              i # j => Range(ReportedCycles[i]) # Range(ReportedCycles[j])

\* Job k is reached from job j along at most n requires edges, one at least.
RECURSIVE RequiresWithin(_, _, _)
RequiresWithin(j, k, n) ==
    /\ n > 0
    /\ \/ JobRequires(j, k)
       \/ \E m \in DOMAIN deploy.jobs : JobRequires(j, m) /\ RequiresWithin(m, k, n - 1)

\* The job-requires graph has a directed cycle, a self-requirement included.
HasDirectedCycle ==
    \E j \in DOMAIN deploy.jobs : RequiresWithin(j, j, Cardinality(DOMAIN deploy.jobs))

\* C15: at least one DeployCycle is emitted iff the job-requires graph, the
\* `job.` prefix stripped, has a directed cycle, a job requiring itself
\* included; an acyclic graph never yields one, in whatever order the
\* search visits the jobs.
C15_CycleDetected ==
    DeployChecked => (CountKind(deployDiags, "DeployCycle") >= 1 <=> HasDirectedCycle)

\* A unit whose only cycle is one job requiring itself.
C15_Witness ==
    /\ DeployChecked
    /\ CountKind(deployDiags, "DeployCycle") = 1
    /\ \E j \in DOMAIN deploy.jobs :
          /\ JobRequires(j, j)
          /\ \A k \in DOMAIN deploy.jobs \ {j} :
                ~RequiresWithin(k, k, Cardinality(DOMAIN deploy.jobs))
          /\ \E k \in DOMAIN deploy.jobs \ {j} : JobRequires(k, j)

\* An acyclic unit with requirements and no DeployCycle.
C15_WitnessAcyclic ==
    /\ DeployChecked /\ ~HasDirectedCycle
    /\ \E j, k, m \in DOMAIN deploy.jobs : JobRequires(j, k) /\ JobRequires(k, m)
    /\ "DeployCycle" \notin Kinds(deployDiags)

\* The target a job's uses_target names, written `target.T` or `T`, as
\* reference validation reads it.
NamedTarget(j) ==
    LET ut == deploy.jobs[j].uses_target
    IN  IF Len(ut) >= 2 /\ Head(ut) = "target" THEN Tail(ut) ELSE ut

\* The jobs whose uses_target names, in either form, a declared target of
\* kind production or prod.
ProdJobsEitherForm ==
    {j \in DOMAIN deploy.jobs :
        /\ deploy.jobs[j].uses_target # <<>>
        /\ NamedTarget(j) \in DOMAIN deploy.targets
        /\ deploy.targets[NamedTarget(j)].kind \in {"production", "prod"}}

\* The diagnostics of a kind whose message names the job first.
DiagsOfJob(kind, j) ==
    SelectSeq(deployDiags, LAMBDA d : d.kind = kind /\ d.message[1] = j)

\* C16: whenever a job's uses_target names a declared target of kind
\* production or prod, with or without the `target.` prefix, a missing gate
\* gives MissingProdGate, a missing rollback gives MissingProdRollback, and
\* under a gate whose approval list lacks `target.T` the job gets
\* ProdJobWithoutApproval.
C16_PrefixOptional ==
    (DeployChecked /\ ProdJobsEitherForm # {}) =>
        /\ deploy.gate = None => "MissingProdGate" \in Kinds(deployDiags)
        /\ deploy.rollback = None => "MissingProdRollback" \in Kinds(deployDiags)
        /\ deploy.gate # None =>
              \A j \in ProdJobsEitherForm :
                  (<<"target">> \o NamedTarget(j))
                       \notin Range(deploy.gate[1].require_manual_approval_for)
                  => DiagsOfJob("ProdJobWithoutApproval", j) # <<>>

\* The jobs tagged with the side effect `release`.
ReleaseJobs ==
    {j \in DOMAIN deploy.jobs : "release" \in Range(deploy.jobs[j].side_effects)}

\* C17: with a gate and without a release section, every job whose side
\* effects contain `release` gets exactly one ReleaseWithoutStrategy,
\* whatever its other side effects and whether or not it has a uses_target.
C17_ReleaseNeedsStrategy ==
    (DeployChecked /\ deploy.gate # None /\ deploy.release = None) =>
        \A j \in ReleaseJobs : Len(DiagsOfJob("ReleaseWithoutStrategy", j)) = 1

\* The unit declares a release of strategy canary or blue_green with an
\* empty health_check.
UncheckedRelease ==
    /\ deploy.release # None
    /\ deploy.release[1].strategy \in {"canary", "blue_green"}
    /\ deploy.release[1].health_check = <<>>

\* C18 as stated: a release strategy of canary or blue_green with an empty
\* health_check gives MissingHealthCheck.
C18_HealthCheckAlways ==
    (DeployChecked /\ UncheckedRelease) => "MissingHealthCheck" \in Kinds(deployDiags)

\* C18: in a unit where some job uses `target.T` for a declared target T of
\* kind production or prod, a release strategy of canary or blue_green with
\* an empty health_check gives exactly one MissingHealthCheck, an error.
C18_HealthCheckForProd ==
    (DeployChecked /\ UncheckedRelease /\ ProdJobs # {}) =>
        /\ CountKind(deployDiags, "MissingHealthCheck") = 1
        /\ \A i \in 1..Len(deployDiags) :
              deployDiags[i].kind = "MissingHealthCheck" =>
                  deployDiags[i].severity = "error"

C18_Witness ==
    /\ DeployChecked /\ UncheckedRelease /\ ProdJobs # {}
    /\ deploy.release[1].strategy = "blue_green"
    /\ "MissingHealthCheck" \in Kinds(deployDiags)

\* The jobs reached from the set S by following `is required by` edges
\* at most n times.
RECURSIVE ReachedFrom(_, _)
ReachedFrom(S, n) ==
    IF n = 0 THEN S
    ELSE ReachedFrom(S \cup {k \in DOMAIN deploy.jobs : \E j \in S : JobRequires(k, j)},
                     n - 1)

EntryJobs == {j \in DOMAIN deploy.jobs : deploy.jobs[j].requires = <<>>}

ReachableJobs == ReachedFrom(EntryJobs, Cardinality(DOMAIN deploy.jobs))

\* C24: without jobs the reachability pass emits nothing; when every job
\* has a requirement it emits one NoEntryPoint error and no UnreachableJob;
\* otherwise it emits one UnreachableJob warning for exactly the jobs not
\* reached from a job without requirements along `is required by` edges.
C24_Reachability ==
    DeployChecked =>
        IF EntryJobs = {}
        THEN /\ CountKind(deployDiags, "NoEntryPoint") =
                    IF DOMAIN deploy.jobs = {} THEN 0 ELSE 1
             /\ \A d \in Range(OfKind(deployDiags, "NoEntryPoint")) : d.severity = "error"
             /\ "UnreachableJob" \notin Kinds(deployDiags)
        ELSE /\ "NoEntryPoint" \notin Kinds(deployDiags)
             /\ \A j \in DOMAIN deploy.jobs :
                   /\ Len(DiagsOfJob("UnreachableJob", j)) =
                          IF j \in ReachableJobs THEN 0 ELSE 1
                   /\ \A k \in 1..Len(DiagsOfJob("UnreachableJob", j)) :
                          DiagsOfJob("UnreachableJob", j)[k].severity = "warning"

\* One job is reached in two steps and another, on a cycle of its own, is not.
C24_Witness ==
    /\ DeployChecked
    /\ Cardinality(EntryJobs) = 1
    /\ \E j \in ReachableJobs \ EntryJobs : \A e \in EntryJobs : ~JobRequires(j, e)
    /\ Cardinality(DOMAIN deploy.jobs) = 3
    /\ CountKind(deployDiags, "UnreachableJob") = 0

\* A unit with jobs and no entry point, and a unit with an unreachable job.
C24_WitnessUnreachable ==
    /\ DeployChecked
    /\ EntryJobs # {}
    /\ CountKind(deployDiags, "UnreachableJob") = 2

\* The secret a reference names, with or without the `secret.` prefix.
NamedSecret(ref) == IF Len(ref) >= 2 /\ Head(ref) = "secret" THEN Tail(ref) ELSE ref

\* Job j needs the secret and may not have it on its target.
OutOfScope(j, ref) ==
    /\ deploy.jobs[j].uses_target # <<>>
    /\ NamedSecret(ref) \in DOMAIN deploy.secrets
    /\ deploy.secrets[NamedSecret(ref)].scope # <<>>
    /\ (<<"target">> \o NamedTarget(j)) \notin Range(deploy.secrets[NamedSecret(ref)].scope)

\* C25: SecretScopeViolation is emitted for a job and a secret it needs iff
\* the job's uses_target is non-empty, the secret is declared, its scope
\* list is non-empty and does not contain `target.<T>` for the job's target
\* T; an empty scope list and an empty uses_target never cause one.
C25_SecretScope ==
    DeployChecked =>
        /\ \A j \in DOMAIN deploy.jobs : \A ref \in Range(deploy.jobs[j].needs_secrets) :
              (\E d \in Range(DiagsOfJob("SecretScopeViolation", j)) : d.message[2] = ref)
                  <=> OutOfScope(j, ref)
        /\ \A d \in Range(OfKind(deployDiags, "SecretScopeViolation")) :
              /\ d.severity = "error"
              /\ d.message[1] \in DOMAIN deploy.jobs
              /\ d.message[2] \in Range(deploy.jobs[d.message[1]].needs_secrets)

\* The job's target is written without prefix and the scope holds the
\* prefixed reference: no violation; and a scope for another target: one.
C25_Witness ==
    /\ DeployChecked
    /\ \E j \in DOMAIN deploy.jobs :
          /\ deploy.jobs[j].uses_target = <<"p">>
          /\ deploy.jobs[j].needs_secrets = <<sk>>
          /\ deploy.secrets[<<"k">>].scope = <<ts>>
          /\ Len(DiagsOfJob("SecretScopeViolation", j)) = 1

C25_WitnessInScope ==
    /\ DeployChecked
    /\ \E j \in DOMAIN deploy.jobs :
          /\ deploy.jobs[j].uses_target = <<"p">>
          /\ deploy.jobs[j].needs_secrets = <<sk>>
          /\ deploy.secrets[<<"k">>].scope = <<tp, ts>>
          /\ "SecretScopeViolation" \notin Kinds(deployDiags)

MigrationJobs ==
    {j \in DOMAIN deploy.jobs : "db_migration" \in Range(deploy.jobs[j].side_effects)}

\* C26: under a gate, a job tagged db_migration yields
\* DbMigrationWithoutTarget iff its uses_target is empty and
\* DbMigrationWithoutApproval iff its uses_target is non-empty and
\* `target.<T>` is not in the approval list; never both for one job, and
\* neither for a job without the tag.
C26_MigrationPolicy ==
    (DeployChecked /\ deploy.gate # None) =>
        \A j \in DOMAIN deploy.jobs :
            LET noTarget == Len(DiagsOfJob("DbMigrationWithoutTarget", j))
                noApproval == Len(DiagsOfJob("DbMigrationWithoutApproval", j))
                ut == deploy.jobs[j].uses_target
            IN  IF j \in MigrationJobs
                THEN /\ noTarget = IF ut = <<>> THEN 1 ELSE 0
                     /\ noApproval =
                           IF /\ ut # <<>>
                              /\ (<<"target">> \o NamedTarget(j))
                                    \notin Range(deploy.gate[1].require_manual_approval_for)
                           THEN 1 ELSE 0
                     /\ noTarget + noApproval <= 1
                ELSE noTarget = 0 /\ noApproval = 0

\* A migration job on `p`, written without prefix, under a gate listing
\* target.p passes; another without target is reported.
C26_Witness ==
    /\ DeployChecked /\ deploy.gate # None
    /\ tp \in Range(deploy.gate[1].require_manual_approval_for)
    /\ \E j, k \in MigrationJobs :
          /\ deploy.jobs[j].uses_target = <<"p">>
          /\ deploy.jobs[k].uses_target = <<>>
          /\ Len(DiagsOfJob("DbMigrationWithoutTarget", k)) = 1
    /\ "DbMigrationWithoutApproval" \notin Kinds(deployDiags)

----------------------------------------------------------------------------
(* Further properties of the resolver *)

\* The entries of the self package with the name, and those of them in the
\* unit's own namespace.
SelfOwn == InPackage(Named, call.ctx.self_package)

SelfExact == SelectSeq(SelfOwn, LAMBDA e : e.namespace = call.ctx.namespace)

\* The unit has a namespace and the self package holds the name only under
\* other namespaces.
OnlyOtherNamespaces ==
    /\ Resolved /\ Unprefixed
    /\ call.ctx.namespace # None
    /\ SelfOwn # <<>> /\ SelfExact = <<>>

\* The call appended exactly the ambiguity warning listing these entries.
AmbiguousAmong(es) ==
    /\ Len(resDiags) = call.before + 1
    /\ resDiags[Len(resDiags)].kind = "W_AMBIGUOUS_NAME"
    /\ resDiags[Len(resDiags)].message[3] = FqNames(es)

Silent == Len(resDiags) = call.before

\* The imports that yield exactly one entry, in declared order.
UniqueImports ==
    SelectSeq([i \in ImportIdx |-> i], LAMBDA i : Len(ImportFound(i)) = 1)

PackageExact ==
    SelectSeq(PackageCandidates, LAMBDA e : e.namespace = call.ctx.namespace)

PrefixResolved == Resolved /\ PrefixedCall /\ PrefixPackage # None

\* The call appended exactly the undefined-symbol error.
Undefined ==
    /\ Len(resDiags) = call.before + 1
    /\ resDiags[Len(resDiags)].kind = ExpectedUndefined

\* C20 as stated: the explicit-prefix lookup prefers the unit's namespace.
\* When the package the prefix denotes holds the name under several
\* namespaces, the entries in ctx.namespace are the only candidates if there
\* are any, so a single one resolves without W_AMBIGUOUS_NAME; all entries
\* of the package are candidates only when none is in ctx.namespace.
C20_PrefixPrefersNamespace ==
    (PrefixResolved /\ call.ctx.namespace # None /\ Len(PackageCandidates) >= 2) =>
        LET candidates == IF PackageExact # <<>> THEN PackageExact
                          ELSE PackageCandidates
        IN  IF Len(candidates) = 1 THEN Silent ELSE AmbiguousAmong(candidates)

\* C20: the explicit-prefix lookup does not look at the unit's namespace.
\* All entries of the package the prefix denotes, of the kind and the local
\* name, are candidates: none gives the undefined-symbol error, one resolves
\* silently, several give W_AMBIGUOUS_NAME listing them all, also when just
\* one of them is in ctx.namespace.
C20_PrefixIgnoresNamespace ==
    PrefixResolved =>
        CASE Len(PackageCandidates) = 0 -> Undefined
          [] Len(PackageCandidates) = 1 -> Silent
          [] OTHER -> AmbiguousAmong(PackageCandidates)

\* The package holds the name once in the unit's namespace and once
\* elsewhere, and the call reports both.
C20_Witness ==
    /\ PrefixResolved /\ call.ctx.namespace # None
    /\ Len(PackageExact) = 1 /\ Len(PackageCandidates) = 2
    /\ AmbiguousAmong(PackageCandidates)

\* The package the head segment denotes: the self package when the head is
\* its name or the unit's namespace, else the package of the first import
\* whose alias or package name is the head.
DenotedPackage ==
    LET head == Head(call.reference)
        hits == {i \in ImportIdx : \/ call.ctx.imports[i].alias = <<head>>
                                   \/ call.ctx.imports[i].package = head}
    IN  IF head = call.ctx.self_package \/ call.ctx.namespace = <<head>>
        THEN <<call.ctx.self_package>>
        ELSE IF hits = {} THEN <<>>
        ELSE <<call.ctx.imports[CHOOSE i \in hits : \A j \in hits : i <= j].package>>

\* The call appended exactly one E_UNDEFINED_PREFIX.
UndefinedPrefix ==
    /\ Len(resDiags) = call.before + 1
    /\ resDiags[Len(resDiags)].kind = "E_UNDEFINED_PREFIX"
    /\ resDiags[Len(resDiags)].severity = "error"

\* C21: a reference whose head segment is not a kind tag is resolved only
\* inside the package the head denotes.  When it denotes none, exactly one
\* E_UNDEFINED_PREFIX is emitted; when the package has no entry of the kind
\* and local name, the undefined-symbol error is emitted even though the
\* name exists elsewhere; and an ambiguity lists entries of that package only.
C21_PrefixIsolation ==
    (Resolved /\ PrefixedCall) =>
        IF DenotedPackage = <<>> THEN UndefinedPrefix
        ELSE LET inside == InPackage(Named, DenotedPackage[1])
             IN  /\ inside = <<>> => Undefined
                 /\ inside # <<>> =>
                       /\ Kinds(resDiags) \subseteq {"W_AMBIGUOUS_NAME"}
                       /\ \A d \in Range(resDiags) : \A k \in 1..Len(d.message[3]) :
                             d.message[3][k][2] = DenotedPackage[1]

\* The prefix is an alias of a package without the name, while the self
\* package holds it: the reference is undefined.
C21_Witness ==
    /\ Resolved /\ PrefixedCall
    /\ DenotedPackage # <<>> /\ DenotedPackage[1] # call.ctx.self_package
    /\ InPackage(Named, DenotedPackage[1]) = <<>>
    /\ InPackage(Named, call.ctx.self_package) # <<>>
    /\ Undefined

\* The first import that yields two or more entries.
AmbiguousImports == {i \in ImportIdx : Len(ImportFound(i)) >= 2}

\* The single entries of the imports that yield exactly one, in declared order.
UniqueMatches == [k \in 1..Len(UniqueImports) |-> ImportFound(UniqueImports[k])[1]]

\* C22: when the self package does not hold the name, the imports are
\* examined in declared order whatever the namespace.  The first import
\* with two or more entries ends resolution with one W_AMBIGUOUS_NAME
\* listing its entries only; otherwise one import with one entry resolves
\* silently, several such imports give one W_AMBIGUOUS_NAME listing all
\* their entries, and without any match the global fallback decides.
C22_ImportedPackages ==
    (Resolved /\ Unprefixed /\ SelfOwn = <<>>) =>
        IF AmbiguousImports # {}
        THEN AmbiguousAmong(ImportFound(
                 CHOOSE i \in AmbiguousImports : \A j \in AmbiguousImports : i <= j))
        ELSE CASE Len(UniqueMatches) = 1 -> Silent
               [] Len(UniqueMatches) >= 2 -> AmbiguousAmong(UniqueMatches)
               [] OTHER -> CASE Len(Named) = 0 -> Undefined
                             [] Len(Named) = 1 -> Silent
                             [] OTHER -> AmbiguousAmong(Named)

\* Two imports of different packages hold the name once each, under
\* different namespaces: one warning lists both.
C22_Witness ==
    /\ Resolved /\ Unprefixed /\ SelfOwn = <<>>
    /\ AmbiguousImports = {}
    /\ Len(UniqueMatches) = 2
    /\ UniqueMatches[1].package # UniqueMatches[2].package
    /\ UniqueMatches[1].namespace # UniqueMatches[2].namespace
    /\ AmbiguousAmong(UniqueMatches)

----------------------------------------------------------------------------
(* Further properties of the unit checker *)

\* Schema id is in a func's input or output or in a module's schemas list.
MentionedByFuncOrMod(id) ==
    \/ \E f \in Funcs : id \in Range(f.input) \cup Range(f.output)
    \/ \E m \in Mods : id \in Range(m.schemas)

UnusedSchemaDiags(id) ==
    SelectSeq(unitDiags, LAMBDA d : d.kind = "UnusedSchema" /\ d.message[1] = id)

\* C23: a declared schema is reported as UnusedSchema, once and as a
\* warning, iff its id is in no func input/output, in no module's schemas
\* list, in no edge schema's from/to and in no boundary schema's over; the
\* from/to/over of schemas of other kinds do not count as usage.
C23_UnusedSchemaAudit ==
    Checked =>
        \A id \in SchemaIds :
            /\ Len(UnusedSchemaDiags(id)) =
                   IF MentionedByFuncOrMod(id) \/ LinkedTo(id) THEN 0 ELSE 1
            /\ \A k \in 1..Len(UnusedSchemaDiags(id)) :
                   UnusedSchemaDiags(id)[k].severity = "warning"

----------------------------------------------------------------------------
(* Further properties of the project checker *)

\* The (module, target) pairs whose target no unit declares.
UnresolvedPairs == {q \in RequirePairs : q[2] \notin DeclaredMods}

UnresolvedDiagsOf(q) ==
    SelectSeq(projDiags, LAMBDA d :
        d.kind = "UnresolvedRequire" /\ d.message = <<q[2], q[1]>>)

\* C27: exactly one UnresolvedRequire per distinct pair (module, target)
\* such that a unit declares the module and lists the target and no unit
\* declares the target.  Every module of a unit inherits all its requires,
\* a repeated pair is reported once, and a unit without modules yields none.
C27_UnresolvedRequires ==
    ProjectChecked =>
        /\ \A q \in UnresolvedPairs :
              /\ Len(UnresolvedDiagsOf(q)) = 1
              /\ UnresolvedDiagsOf(q)[1].severity = "error"
        /\ CountKind(projDiags, "UnresolvedRequire") = Cardinality(UnresolvedPairs)

\* A unit with two modules lists the missing module twice and a unit
\* without modules lists it too: two diagnostics.
C27_Witness ==
    /\ ProjectChecked
    /\ Len(project.files) = 2
    /\ \E i, j \in 1..2 :
          /\ Len(ModsInFile(project.files[i])) = 2
          /\ project.files[i].requires = << <<"mod", "z">>, <<"mod", "z">> >>
          /\ ModsInFile(project.files[j]) = <<>>
          /\ project.files[j].requires # <<>>
    /\ CountKind(projDiags, "UnresolvedRequire") = 2

\* The module sets of the RequireCycle paths a run with this key order reports.
CycleSetsOf(diags) ==
    LET ds == OfKind(diags, "RequireCycle")
    IN  {Range(ds[i].message[1]) : i \in 1..Len(ds)}

KeyOrders == Perms(DOMAIN RequireGraph(collect_normalized_requires(project)))

\* C29: the number of RequireCycle diagnostics and the set of modules on
\* each reported cycle are the same for every order in which the search
\* takes its start modules.
C29_CycleReportsDeterministic ==
    ProjectChecked =>
        \A keys \in KeyOrders :
            /\ CountKind(check_project(project, keys), "RequireCycle")
                  = CountKind(projDiags, "RequireCycle")
            /\ CycleSetsOf(check_project(project, keys)) = CycleSetsOf(projDiags)

\* Module n is reached from module m along at most k require edges, one at least.
RECURSIVE ModReaches(_, _, _)
ModReaches(m, n, k) ==
    /\ k > 0
    /\ \/ <<m, n>> \in RequirePairs
       \/ \E x \in DeclaredMods : <<m, x>> \in RequirePairs /\ ModReaches(x, n, k - 1)

\* The require graph has a directed cycle through two or more modules.
HasModuleCycle ==
    \E m, n \in DeclaredMods :
        /\ m # n
        /\ ModReaches(m, n, Cardinality(DeclaredMods))
        /\ ModReaches(n, m, Cardinality(DeclaredMods))

RequireCyclePaths ==
    LET ds == OfKind(projDiags, "RequireCycle")
    IN  [i \in 1..Len(ds) |-> ds[i].message[1]]

\* C30: at least one RequireCycle is emitted iff the require graph has a
\* directed cycle through two or more distinct modules; every reported
\* path ends where it starts and each module on it requires the next; a
\* module that only requires itself yields no RequireCycle.
C30_RequireCycles ==
    ProjectChecked =>
        /\ (RequireCyclePaths # <<>>) <=> HasModuleCycle
        /\ \A i \in 1..Len(RequireCyclePaths) :
              LET path == RequireCyclePaths[i]
              IN  /\ Len(path) >= 3
                  /\ path[Len(path)] = path[1]
                  /\ \A k \in 1..(Len(path) - 1) : <<path[k], path[k + 1]>> \in RequirePairs

\* A unit's require names one of its own modules and nothing else forms
\* a cycle: no RequireCycle.
C30_Witness ==
    /\ ProjectChecked
    /\ \E m \in DeclaredMods : <<m, m>> \in RequirePairs
    /\ ~HasModuleCycle
    /\ "RequireCycle" \notin Kinds(projDiags)

\* Two modules require each other and one of them itself: one RequireCycle.
C30_WitnessCycle ==
    /\ ProjectChecked /\ HasModuleCycle
    /\ \E m \in DeclaredMods : <<m, m>> \in RequirePairs
    /\ CountKind(projDiags, "RequireCycle") >= 1

----------------------------------------------------------------------------
(* Properties of package assignment and import resolution *)

PackagesAssigned == pc \in {"assigned", "imported", "symbols_built", "names_resolved"}

\* The assignments and the diagnostics of the unit at a path.
UnitAssignments(path) == SelectSeq(pkgAssignments, LAMBDA a : a.file_path = path)
PackageErrorsOf(path) == SelectSeq(pkgDiags, LAMBDA d : d.location = path)

\* The packages whose resolved root contains the path.
ContainingRoots(path) ==
    { n \in DOMAIN manifest :
        LET root == manifest[n].root
            resolved == IF root # <<>> /\ root[1] = "/" THEN root
                        ELSE projectRoot \o root
        IN  Len(resolved) <= Len(path)
            /\ \A i \in 1..Len(resolved) : path[i] = resolved[i] }

\* The one outcome a unit is to have: the package it is assigned to, or the
\* kind of its error.
ExpectedOutcome(path, file) ==
    IF DOMAIN manifest = {} THEN <<"assigned", "default">>
    ELSE IF file.package # None
         THEN IF file.package[1] \notin DOMAIN manifest
              THEN <<"error", "E_PACKAGE_UNKNOWN">>
              ELSE IF file.package[1] \in ContainingRoots(path)
                   THEN <<"assigned", file.package[1]>>
                   ELSE <<"error", "E_PACKAGE_ROOT_MISMATCH">>
         ELSE CASE Cardinality(ContainingRoots(path)) = 0 ->
                      <<"error", "E_PACKAGE_UNASSIGNED">>
                [] Cardinality(ContainingRoots(path)) = 1 ->
                      <<"assigned", CHOOSE n \in ContainingRoots(path) : TRUE>>
                [] OTHER -> <<"error", "E_PACKAGE_AMBIGUOUS">>

ActualOutcomes(path) ==
    [i \in 1..Len(UnitAssignments(path)) |-> <<"assigned", UnitAssignments(path)[i].package>>]
    \o [i \in 1..Len(PackageErrorsOf(path)) |->
           <<PackageErrorsOf(path)[i].severity, PackageErrorsOf(path)[i].kind>>]

\* C12: package assignment gives every unit exactly one outcome, an
\* assignment or an error diagnostic, so that |assignments| + |diagnostics|
\* = |units|.  With no package in the manifest every unit goes to `default`
\* without diagnostics, whatever it declares; otherwise a declared unknown
\* package gives E_PACKAGE_UNKNOWN, a declared known package whose root does
\* not contain the path gives E_PACKAGE_ROOT_MISMATCH, and an undeclared unit
\* under no, one or several roots gives E_PACKAGE_UNASSIGNED, an assignment
\* or E_PACKAGE_AMBIGUOUS.
C12_OneOutcomePerUnit ==
    PackagesAssigned =>
        /\ Len(pkgAssignments) + Len(pkgDiags) = Len(files)
        /\ \A i \in 1..Len(files) :
              ActualOutcomes(files[i].path) =
                  <<ExpectedOutcome(files[i].path, files[i].file)>>
        /\ DOMAIN manifest = {} => pkgDiags = <<>>

C12_Witness ==
    /\ pc = "assigned" /\ Len(files) = 2
    /\ Kinds(pkgDiags) = {"E_PACKAGE_AMBIGUOUS"}
    /\ Len(pkgAssignments) = 1
    /\ files[2].file.package = None

ImportsParsed == pc \in {"imported", "symbols_built", "names_resolved"}

\* A directive of the form `<package>` or `<package> as <alias>`, the
\* keyword in any letter case.
IsImportDirective(target) ==
    \/ Len(target) = 1
    \/ Len(target) = 3 /\ target[2] \in {"as", "As", "aS", "AS"}

\* What one directive is to yield: "kept", or the kind of its error.
DirectiveOutcome(target) ==
    IF ~IsImportDirective(target) THEN "E_IMPORT_SYNTAX"
    ELSE IF DOMAIN manifest # {} /\ target[1] \notin DOMAIN manifest
         THEN "E_IMPORT_UNKNOWN_PACKAGE"
         ELSE "kept"

DirectiveOutcomes(file) ==
    [k \in 1..Len(file.imports) |-> DirectiveOutcome(file.imports[k].target)]

KeptDirectives(file) ==
    SelectSeq(file.imports, LAMBDA raw : DirectiveOutcome(raw.target) = "kept")

ImportErrorsOf(path) == SelectSeq(importDiags, LAMBDA d : d.location = path)

\* C13: import resolution returns one import context per unit, in unit
\* order, and every directive of a unit yields exactly one of: an entry kept
\* in declared order, an E_IMPORT_SYNTAX error, or, only when the manifest
\* declares a package and the imported name is not one of them, an
\* E_IMPORT_UNKNOWN_PACKAGE error without an entry.  With no package in the
\* manifest no import is rejected as unknown.
C13_ImportResolution ==
    ImportsParsed =>
        /\ Len(contexts) = Len(files)
        /\ \A i \in 1..Len(files) :
              LET file == files[i].file
                  kept == KeptDirectives(file)
              IN  /\ contexts[i].file_path = files[i].path
                  /\ Len(contexts[i].imports) + Len(ImportErrorsOf(files[i].path))
                        = Len(file.imports)
                  /\ [k \in 1..Len(contexts[i].imports) |-> contexts[i].imports[k].package]
                        = [k \in 1..Len(kept) |-> kept[k].target[1]]
                  /\ KindSeq(ImportErrorsOf(files[i].path))
                        = SelectSeq(DirectiveOutcomes(file), LAMBDA o : o # "kept")
        /\ DOMAIN manifest = {} => "E_IMPORT_UNKNOWN_PACKAGE" \notin Kinds(importDiags)

C13_Witness ==
    /\ ImportsParsed /\ Len(files) = 2
    /\ KindSeq(importDiags) = <<"E_IMPORT_SYNTAX", "E_IMPORT_UNKNOWN_PACKAGE">>
    /\ Len(contexts[2].imports) = 1
    /\ Len(files[2].file.imports) = 2

\* An aliased directive is kept with its alias when the manifest is empty
\* and its package is unknown to everyone.
C13_WitnessEmptyManifest ==
    /\ ImportsParsed /\ DOMAIN manifest = {}
    /\ \E i \in 1..Len(contexts) :
          [package |-> "z", alias |-> Some("x")] \in Range(contexts[i].imports)

NamesResolved == pc = "names_resolved"

\* The units for which package assignment reported an error.
FailedUnits ==
    {i \in 1..Len(files) :
        \E k \in 1..Len(pkgDiags) :
            /\ pkgDiags[k].location = files[i].path
            /\ pkgDiags[k].severity = "error"}

ContextsOf(path) == SelectSeq(contexts, LAMBDA c : c.file_path = path)
EntriesOf(path) == SelectSeq(symbols, LAMBDA e : e.file = path)
ResolutionDiagsOf(path) == SelectSeq(resDiags, LAMBDA d : d.location[1] = path)

\* C28: a unit whose package assignment reported an error has no import
\* context and no import diagnostics, contributes no entry to the symbol
\* table and gets no diagnostic from reference resolution; every other
\* unit has its import context.
C28_FailedUnitSkipped ==
    NamesResolved =>
        \A i \in 1..Len(files) :
            IF i \in FailedUnits
            THEN /\ ContextsOf(files[i].path) = <<>>
                 /\ ImportErrorsOf(files[i].path) = <<>>
                 /\ EntriesOf(files[i].path) = <<>>
                 /\ ResolutionDiagsOf(files[i].path) = <<>>
            ELSE Len(ContextsOf(files[i].path)) = 1

====
